---- MODULE Spec2Model ----
(***************************************************************************)
(* A model of minti: the duration-expression interpreter, the Timer and    *)
(* MultiTimer state machine, the persistence codec and the TimerList.      *)
(*                                                                         *)
(* Text is a sequence of one-character strings.  Time is counted in ticks; *)
(* one millisecond is SubMs ticks, so that values finer than a millisecond *)
(* exist and the codec's truncation to whole milliseconds is visible.      *)
(* A result that a definition uses more than once is passed as the         *)
(* argument of a local operator (LET F(x) == ... IN F(e)).                 *)
(***************************************************************************)
EXTENDS Integers, Sequences, FiniteSets, TLC

(* ------------------------------ bounds -------------------------------- *)
\* ticks per millisecond
SubMs == 2
\* the clock runs from 0 to MaxTime ticks
MaxTime == 5
\* total_duration is kept at or below MaxDur ticks by the guards of AddTime
MaxDur == 4
\* literals compared when two sequence cursors are compared
LookAhead == 2
\* the TimerList is kept at or below MaxTimers entries by the guard of PushNew
MaxTimers == 2

(* --------------------------- option values ---------------------------- *)
None == [some |-> FALSE, v |-> 0]
Some(x) == [some |-> TRUE, v |-> x]
NoText == [some |-> FALSE, v |-> <<>>]

Min2(a, b) == IF a <= b THEN a ELSE b
Abs(a) == IF a < 0 THEN -a ELSE a

RECURSIVE Pow10(_)
Pow10(k) == IF k = 0 THEN 1 ELSE 10 * Pow10(k - 1)

\* integer division truncating toward zero, as Rust's `/` and `as i64`
TruncDiv(a, b) == IF a >= 0 THEN a \div b ELSE -((-a) \div b)

(* ----------------------------- characters ----------------------------- *)
Digits == <<"0", "1", "2", "3", "4", "5", "6", "7", "8", "9">>
LowerLetters ==
    <<"a", "b", "c", "d", "e", "f", "g", "h", "i", "j", "k", "l", "m",
      "n", "o", "p", "q", "r", "s", "t", "u", "v", "w", "x", "y", "z">>
UpperLetters ==
    <<"A", "B", "C", "D", "E", "F", "G", "H", "I", "J", "K", "L", "M",
      "N", "O", "P", "Q", "R", "S", "T", "U", "V", "W", "X", "Y", "Z">>

Range(s) == {s[i] : i \in DOMAIN s}
IndexOf(s, c) == CHOOSE i \in DOMAIN s : s[i] = c

is_ascii_digit(c) == c \in Range(Digits)
is_ascii_alphabetic(c) == c \in Range(LowerLetters) \cup Range(UpperLetters)
DigitVal(c) == IndexOf(Digits, c) - 1

to_ascii_lowercase(c) ==
    IF c \in Range(UpperLetters) THEN LowerLetters[IndexOf(UpperLetters, c)] ELSE c

RECURSIVE MapLower(_)
MapLower(s) ==
    IF s = <<>> THEN <<>> ELSE <<to_ascii_lowercase(Head(s))>> \o MapLower(Tail(s))

RECURSIVE StripSpaces(_)
StripSpaces(s) ==
    IF s = <<>> THEN <<>>
    ELSE IF Head(s) = " " THEN StripSpaces(Tail(s))
    ELSE <<Head(s)>> \o StripSpaces(Tail(s))

RECURSIVE TrimStart(_)
TrimStart(s) == IF s # <<>> /\ Head(s) = " " THEN TrimStart(Tail(s)) ELSE s

RECURSIVE TrimEnd(_)
TrimEnd(s) ==
    IF s # <<>> /\ s[Len(s)] = " " THEN TrimEnd(SubSeq(s, 1, Len(s) - 1)) ELSE s

Trim(s) == TrimEnd(TrimStart(s))

\* u64's Display: the decimal digits of n without leading zeros
RECURSIVE IntToText(_)
IntToText(n) ==
    IF n < 10 THEN <<Digits[n + 1]>>
    ELSE IntToText(n \div 10) \o <<Digits[(n % 10) + 1]>>

RECURSIVE DigitsValue(_)
DigitsValue(s) ==
    IF s = <<>> THEN 0 ELSE 10 * DigitsValue(SubSeq(s, 1, Len(s) - 1)) + DigitVal(s[Len(s)])

(* ------------------------------ results ------------------------------- *)
Ok(x) == [ok |-> TRUE, v |-> x]
Fail(err, payload) == [ok |-> FALSE, e |-> err, p |-> payload]

(* ------------------- interpreter/lexer.rs: groups ---------------------- *)
GroupKindOf(c) ==
    IF is_ascii_alphabetic(c) THEN "Text"
    ELSE IF is_ascii_digit(c) \/ c = "." THEN "Number"
    ELSE IF c = ":" THEN "Separator"
    ELSE "Invalid"

RECURSIVE LexLoop(_, _)
LexLoop(rest, token_list) ==
    IF rest = <<>> THEN Ok(token_list)
    ELSE LET ch == Head(rest)
             curr_token_type == GroupKindOf(ch)
             n == Len(token_list)
             is_new_token == \/ n = 0
                             \/ curr_token_type # token_list[n].variant
                             \/ curr_token_type = "Separator"
         IN  IF curr_token_type = "Invalid" THEN Fail("InvalidCharacter", <<ch>>)
             ELSE IF is_new_token
                  THEN LexLoop(Tail(rest),
                               Append(token_list, [variant |-> curr_token_type, string |-> <<ch>>]))
                  ELSE LexLoop(Tail(rest),
                               [token_list EXCEPT ![n].string = Append(@, ch)])

lex(input) == LexLoop(StripSpaces(MapLower(input)), <<>>)

(* ---------------- time/units.rs and time/meridiem.rs ------------------- *)
MILLI_TOKENS ==
    { <<"m","s">>, <<"m","i","l","l","i">>, <<"m","i","l","l","i","s">>,
      <<"m","i","l","l","i","s","e","c">>, <<"m","i","l","l","i","s","e","c","s">>,
      <<"m","i","l","l","i","s","e","c","o","n","d">>,
      <<"m","i","l","l","i","s","e","c","o","n","d","s">> }
SEC_TOKENS ==
    { <<"s">>, <<"s","e","c">>, <<"s","e","c","s">>, <<"s","e","c","o","n","d">>,
      <<"s","e","c","o","n","d","s">> }
MIN_TOKENS ==
    { <<"m">>, <<"m","i","n">>, <<"m","i","n","s">>, <<"m","i","n","u","t","e">>,
      <<"m","i","n","u","t","e","s">> }
HOUR_TOKENS ==
    { <<"h">>, <<"h","r">>, <<"h","r","s">>, <<"h","o","u","r">>, <<"h","o","u","r","s">> }
DAY_TOKENS == { <<"d">>, <<"d","a","y">>, <<"d","a","y","s">> }
AM_TOKENS == { <<"a","m">>, <<"a",".","m",".">> }
PM_TOKENS == { <<"p","m">>, <<"p",".","m",".">> }

TimeUnitFromStr(s) ==
    IF s \in MILLI_TOKENS THEN Ok("Milli")
    ELSE IF s \in SEC_TOKENS THEN Ok("Sec")
    ELSE IF s \in MIN_TOKENS THEN Ok("Min")
    ELSE IF s \in HOUR_TOKENS THEN Ok("Hour")
    ELSE IF s \in DAY_TOKENS THEN Ok("Day")
    ELSE Fail("InvalidUnit", s)

MeridiemFromStr(s) ==
    IF s \in AM_TOKENS THEN Ok("Ante")
    ELSE IF s \in PM_TOKENS THEN Ok("Post")
    ELSE Fail("InvalidUnit", s)

UnitOrder == <<"Milli", "Sec", "Min", "Hour", "Day">>
numeric_value(u) == IndexOf(UnitOrder, u) - 1
number_to_variant(num) == IF num \in 0..4 THEN Some(UnitOrder[num + 1]) ELSE NoText
\* a unit that is its own smaller unit
KeepsUnit(u) == Some(u)
\* wrapping_sub(1) on a u8
smaller_unit(u) == number_to_variant((numeric_value(u) + 255) % 256)
larger_unit(u) == number_to_variant(Min2(numeric_value(u) + 1, 255))

\* ticks in one unit
UnitTicks(u) ==
    CASE u = "Milli" -> SubMs
      [] u = "Sec" -> 1000 * SubMs
      [] u = "Min" -> 60 * 1000 * SubMs
      [] u = "Hour" -> 60 * 60 * 1000 * SubMs
      [] u = "Day" -> 24 * 60 * 60 * 1000 * SubMs

\* a number is mant / 10^frac; the float product is cut to a whole tick
to_duration(u, num) == TruncDiv(num.mant * UnitTicks(u), Pow10(num.frac))

(* --------------------- interpreter/parser.rs: tokens ------------------- *)
NumberToken(m, f) == [t |-> "Number", mant |-> m, frac |-> f, x |-> ""]
UnitToken(u) == [t |-> "Unit", mant |-> 0, frac |-> 0, x |-> u]
MeridiemToken(m) == [t |-> "Meridiem", mant |-> 0, frac |-> 0, x |-> m]
SeparatorToken == [t |-> "Separator", mant |-> 0, frac |-> 0, x |-> ""]

CountDots(s) == Cardinality({i \in DOMAIN s : s[i] = "."})
DotAt(s) == CHOOSE i \in DOMAIN s : s[i] = "."
DigitsOnly(s) == SelectSeq(s, is_ascii_digit)

\* str::parse::<f64> on a text of digits and dots: at most one dot and at
\* least one digit
ParseF64(s) ==
    IF CountDots(s) > 1 \/ DigitsOnly(s) = <<>> THEN Fail("InvalidNumber", s)
    ELSE Ok([mant |-> DigitsValue(DigitsOnly(s)),
             frac |-> IF CountDots(s) = 0 THEN 0 ELSE Len(s) - DotAt(s)])

TokenTryFrom(group) ==
    CASE group.variant = "Number" ->
           LET num == ParseF64(group.string)
           IN  IF num.ok THEN Ok(NumberToken(num.v.mant, num.v.frac)) ELSE num
      [] group.variant = "Text" ->
           LET n == TimeUnitFromStr(group.string)
               m == MeridiemFromStr(group.string)
           IN  IF n.ok THEN Ok(UnitToken(n.v))
               ELSE IF m.ok THEN Ok(MeridiemToken(m.v)) ELSE m
      [] group.variant = "Separator" -> Ok(SeparatorToken)

\* collect() into a Result: the first error, else every token
RECURSIVE ParseGroups(_, _)
ParseGroups(groups, acc) ==
    IF groups = <<>> THEN Ok(acc)
    ELSE LET tk == TokenTryFrom(Head(groups))
         IN  IF tk.ok THEN ParseGroups(Tail(groups), Append(acc, tk.v)) ELSE tk

parse(groups) == ParseGroups(groups, <<>>)

(* ------------------ time/relative.rs, time/meridiem.rs ----------------- *)
DayTicks == UnitTicks("Day")
\* Time::from_hms(h, m, s) as ticks since midnight
from_hms(h, m, s) ==
    IF h <= 23 /\ m <= 59 /\ s <= 59
    THEN Some(h * UnitTicks("Hour") + m * UnitTicks("Min") + s * UnitTicks("Sec"))
    ELSE None

\* a 12-hour clock that only adds 12 in the afternoon
AddsTwelveAfterNoon(hour, min, sec, meridiem) ==
    IF hour > 12 THEN None
    ELSE from_hms(IF meridiem = "Post" THEN hour + 12 ELSE hour, min, sec)

new_12h_time(hour, min, sec, meridiem) ==
    IF hour > 12 THEN None
    ELSE from_hms(CASE meridiem = "Ante" /\ hour = 12 -> 0
                    [] meridiem = "Ante" /\ hour # 12 -> hour
                    [] meridiem = "Post" /\ hour = 12 -> 12
                    [] meridiem = "Post" /\ hour # 12 -> hour + 12,
                  min, sec)

\* the time to the target on the following day, whatever the time of day
UntilTomorrow(target_time, tod) == target_time + DayTicks - tod
\* the time left in the day of tod: nothing at the target time itself
UntilSameDay(target_time, tod) == (target_time + DayTicks - tod) % DayTicks
\* tod is the local time of day, in ticks since midnight
duration_until_time(target_time, tod) ==
    IF tod < target_time THEN target_time - tod ELSE DayTicks - (tod - target_time)

(* ----------------------- interpreter/eval.rs --------------------------- *)
get_tokens_format(tokens) ==
    IF Len(tokens) = 1 THEN "SingleNumber"
    ELSE IF \E i \in DOMAIN tokens : tokens[i].t \in {"Separator", "Meridiem"} THEN "Time"
    ELSE "Units"

eval_single_number(tokens) ==
    IF tokens[1].t = "Number" THEN Ok(to_duration("Min", tokens[1])) ELSE Fail("Empty", <<>>)

IsInteger(num) == num.mant % Pow10(num.frac) = 0
SaturatingU8(num) == Min2(num.mant \div Pow10(num.frac), 255)

\* the loop of eval_time: st holds meridiem, time_sections and current_unit
RECURSIVE EvalTimeLoop(_, _)
EvalTimeLoop(tokens, st) ==
    IF tokens = <<>> THEN Ok(st)
    ELSE LET token == Head(tokens)
         IN  IF st.meridiem.some THEN Fail("Unknown", <<>>)
             ELSE CASE token.t = "Separator" ->
                         IF st.current_unit + 1 > 2 THEN Fail("TooManySeparators", <<>>)
                         ELSE EvalTimeLoop(Tail(tokens),
                                           [st EXCEPT !.current_unit = @ + 1])
                    [] token.t = "Number" ->
                         IF IsInteger(token)
                         THEN EvalTimeLoop(Tail(tokens),
                                  [st EXCEPT !.time_sections[st.current_unit + 1] =
                                                 SaturatingU8(token)])
                         ELSE Fail("InvalidNumber", <<token.mant, token.frac>>)
                    [] token.t = "Meridiem" ->
                         EvalTimeLoop(Tail(tokens), [st EXCEPT !.meridiem = Some(token.x)])
                    [] token.t = "Unit" -> Fail("ClashingFormats", <<>>)

NoName == [some |-> FALSE, v |-> ""]

eval_time(tokens, tod) ==
    LET st == EvalTimeLoop(tokens,
                  [meridiem |-> NoName, time_sections |-> <<0, 0, 0>>, current_unit |-> 0])
    IN  IF ~st.ok THEN st
        ELSE LET h == st.v.time_sections[1]
                 m == st.v.time_sections[2]
                 s == st.v.time_sections[3]
             IN  IF st.v.meridiem.some
                 THEN LET t == new_12h_time(h, m, s, st.v.meridiem.v)
                      IN  IF t.some THEN Ok(duration_until_time(t.v, tod))
                          ELSE Fail("Unknown", <<>>)
                 ELSE LET am_time == new_12h_time(h, m, s, "Ante")
                          pm_time == new_12h_time(h, m, s, "Post")
                      IN  IF am_time.some /\ pm_time.some
                          THEN Ok(Min2(duration_until_time(am_time.v, tod),
                                       duration_until_time(pm_time.v, tod)))
                          ELSE Fail("Unknown", <<>>)

\* the loop of eval_units: st holds total_duration and current_number
RECURSIVE EvalUnitsLoop(_, _)
EvalUnitsLoop(tokens, st) ==
    IF tokens = <<>> THEN Ok(st)
    ELSE LET token == Head(tokens)
         IN  CASE token.t = "Number" ->
                    EvalUnitsLoop(Tail(tokens), [st EXCEPT !.current_number = token])
               [] token.t = "Unit" ->
                    EvalUnitsLoop(Tail(tokens),
                        [st EXCEPT !.total_duration =
                                       @ + to_duration(token.x, st.current_number)])
               [] OTHER -> Fail("ClashingFormats", <<>>)

eval_units(tokens) ==
    LET st == EvalUnitsLoop(tokens,
                  [total_duration |-> 0, current_number |-> NumberToken(0, 0)])
        last == tokens[Len(tokens)]
    IN  IF ~st.ok THEN st
        ELSE IF last.t # "Number" THEN Ok(st.v.total_duration)
        ELSE IF tokens[Len(tokens) - 1].t # "Unit" THEN Fail("Unknown", <<>>)
        ELSE LET unit == smaller_unit(tokens[Len(tokens) - 1].x)
             IN  IF unit.some THEN Ok(st.v.total_duration + to_duration(unit.v, last))
                 ELSE Fail("SmallerThanMilli", <<last.mant, last.frac>>)

eval(tokens, tod) ==
    IF tokens = <<>> THEN Fail("Empty", <<>>)
    ELSE CASE get_tokens_format(tokens) = "SingleNumber" -> eval_single_number(tokens)
           [] get_tokens_format(tokens) = "Time" -> eval_time(tokens, tod)
           [] get_tokens_format(tokens) = "Units" -> eval_units(tokens)

interpret_single(input, tod) ==
    LET Evaluate(tokens) == IF ~tokens.ok THEN tokens ELSE eval(tokens.v, tod)
        Parse(groups) == IF ~groups.ok THEN groups ELSE Evaluate(parse(groups.v))
    IN  Parse(lex(input))

(* ------------------ interpreter/multi.rs: the lexer -------------------- *)
\* the end-of-input character appended by Lexer::new
NUL == "NUL"
\* u64::MAX, the count of a postfix `*`; the model's integers end at 2^31 - 1
U64_MAX == 2147483647
\* usize::MAX, where repeat counts saturate
USIZE_MAX == 2147483647
\* a count that saturates after two rounds
SaturatesAtTwo(n) == Min2(n, 2)
SaturatingUsize(n) == Min2(n, USIZE_MAX)

SplitChars == {"+", "*", "(", ")", NUL}

ValueDuration(str) == [t |-> "Value", kind |-> "Duration", s |-> str, n |-> 0]
ValueInt(int) == [t |-> "Value", kind |-> "Int", s |-> <<>>, n |-> int]
OpToken(op) == [t |-> "Op", kind |-> op, s |-> <<>>, n |-> 0]
EofToken == [t |-> "Eof", kind |-> "Eof", s |-> <<>>, n |-> 0]
MUL == OpToken("Mul")
LPAREN == OpToken("LParen")
RPAREN == OpToken("RParen")
is_value(tok) == tok.t = "Value"

\* str::parse::<u64>: digits only (an optional leading `+` cannot occur, `+`
\* being a split character)
IsU64Text(str) == str # <<>> /\ \A i \in DOMAIN str : is_ascii_digit(str[i])

MultiTokenFrom(str) ==
    CASE str = <<"+">> -> OpToken("Add")
      [] str = <<"*">> -> MUL
      [] str = <<"(">> -> LPAREN
      [] str = <<")">> -> RPAREN
      [] str = <<NUL>> -> EofToken
      [] OTHER -> IF IsU64Text(str) THEN ValueInt(DigitsValue(str)) ELSE ValueDuration(str)

OpToString(op) ==
    CASE op = "Add" -> <<"+">> [] op = "Mul" -> <<"*">>
      [] op = "LParen" -> <<"(">> [] op = "RParen" -> <<")">>

TokenToString(tok) ==
    CASE tok.t = "Eof" -> <<"e", "o", "f">>
      [] tok.t = "Op" -> OpToString(tok.kind)
      [] tok.t = "Value" -> IF tok.kind = "Int" THEN IntToText(tok.n) ELSE tok.s

\* split_inclusive and split_at: each segment gives its text and its final
\* split character
RECURSIVE SplitSegments(_, _)
SplitSegments(rest, cur) ==
    IF rest = <<>> THEN (IF cur = <<>> THEN <<>> ELSE <<cur>>)
    ELSE IF Head(rest) \in SplitChars
         THEN <<cur, <<Head(rest)>>>> \o SplitSegments(Tail(rest), <<>>)
         ELSE SplitSegments(Tail(rest), Append(cur, Head(rest)))

RECURSIVE TrimmedTokens(_)
TrimmedTokens(pieces) ==
    IF pieces = <<>> THEN <<>>
    ELSE LET str == Trim(Head(pieces))
         IN  (IF str = <<>> THEN <<>> ELSE <<MultiTokenFrom(str)>>)
             \o TrimmedTokens(Tail(pieces))

\* tuple_windows and flat_map: the last token is never a `curr`
RECURSIVE Normalize(_)
Normalize(toks) ==
    IF Len(toks) < 2 THEN <<>>
    ELSE LET curr == toks[1]
             next == toks[2]
         IN  (IF (curr = RPAREN /\ is_value(next)) \/ (is_value(curr) /\ next = LPAREN)
              THEN <<curr, MUL>>
              ELSE IF curr = MUL /\ ~(next = LPAREN \/ is_value(next))
              THEN <<curr, ValueInt(U64_MAX)>>
              ELSE <<curr>>)
             \o Normalize(Tail(toks))

\* the token list in reading order; the code stores it reversed and pops
LexerNew(input) == Normalize(TrimmedTokens(SplitSegments(Append(input, NUL), <<>>)))
LexerNext(lexer) == [tok |-> IF lexer = <<>> THEN EofToken ELSE Head(lexer),
                     lexer |-> IF lexer = <<>> THEN <<>> ELSE Tail(lexer)]
LexerPeek(lexer) == IF lexer = <<>> THEN EofToken ELSE Head(lexer)

(* ---------------- interpreter/multi.rs: the Pratt parser --------------- *)
Atom(value) == [k |-> "Atom", value |-> value]
Cons(op, left, right) == [k |-> "Cons", op |-> op, left |-> left, right |-> right]
Parsed(sexpr, lexer) == [ok |-> TRUE, v |-> sexpr, lexer |-> lexer]

\* binding powers that rank `*` with `+`
EqualBindingPower(op) ==
    IF op \in {"Add", "Mul"} THEN Some(<<1, 2>>) ELSE [some |-> FALSE, v |-> <<0, 0>>]
infix_binding_power(op) ==
    CASE op = "Add" -> Some(<<1, 2>>)
      [] op = "Mul" -> Some(<<3, 4>>)
      [] OTHER -> [some |-> FALSE, v |-> <<0, 0>>]

RECURSIVE expr_bp(_, _), ExprLoop(_, _, _)
expr_bp(lexer, min_bp) ==
    LET first == LexerNext(lexer)
    IN  CASE first.tok = LPAREN ->
               LET lhs == expr_bp(first.lexer, 0)
               IN  IF ~lhs.ok THEN lhs
                   ELSE LET next == LexerNext(lhs.lexer)
                        IN  IF next.tok # RPAREN THEN Fail("UnbalancedParens", <<>>)
                            ELSE ExprLoop(lhs.v, next.lexer, min_bp)
          [] first.tok.t = "Value" -> ExprLoop(Atom(first.tok), first.lexer, min_bp)
          [] first.tok.t = "Op" /\ first.tok # LPAREN ->
               Fail("InvalidOp", OpToString(first.tok.kind))
          [] first.tok.t = "Eof" -> Fail("Empty", <<>>)

ExprLoop(lhs, lexer, min_bp) ==
    LET tok == LexerPeek(lexer)
        bp == infix_binding_power(tok.kind)
    IN  CASE tok.t = "Eof" -> Parsed(lhs, lexer)
          [] tok.t = "Value" -> Fail("InvalidValue", TokenToString(tok))
          [] tok.t = "Op" ->
               IF ~bp.some \/ bp.v[1] < min_bp THEN Parsed(lhs, lexer)
               ELSE LET rhs == expr_bp(LexerNext(lexer).lexer, bp.v[2])
                    IN  IF rhs.ok
                        THEN ExprLoop(Cons(tok.kind, lhs, rhs.v), rhs.lexer, min_bp)
                        ELSE IF rhs.e = "Empty"
                        THEN Fail("InvalidOp", OpToString(tok.kind))
                        ELSE rhs

\* a validation that accepts every token
ValidateNothing(tokens, tod) == Ok(TRUE)
\* a validation that reports every invalid literal as Unknown
ValidateAsUnknown(tokens, tod) ==
    IF \E i \in 1..Len(tokens) :
            /\ tokens[i].t = "Value" /\ tokens[i].kind = "Duration"
            /\ ~interpret_single(tokens[i].s, tod).ok
    THEN Fail("Unknown", <<>>)
    ELSE Ok(TRUE)
\* every Value::Duration token must be a valid single duration; the Vec of
\* tokens is stored in reverse, so the loop meets the last token of the text
\* first
RECURSIVE ValidateDurations(_, _)
ValidateDurations(tokens, tod) ==
    IF tokens = <<>> THEN Ok(TRUE)
    ELSE LET tok == tokens[Len(tokens)]
             Before == SubSeq(tokens, 1, Len(tokens) - 1)
             Checked(r) == IF ~r.ok THEN r ELSE ValidateDurations(Before, tod)
         IN  IF tok.t = "Value" /\ tok.kind = "Duration"
             THEN Checked(interpret_single(tok.s, tod))
             ELSE ValidateDurations(Before, tod)

MultiParse(input, tod) ==
    LET Finished(result) ==
            IF ~result.ok THEN result
            ELSE IF LexerPeek(result.lexer) # EofToken THEN Fail("UnbalancedParens", <<>>)
            ELSE Ok(result.v)
        Validated(lexer, valid) == IF ~valid.ok THEN valid ELSE Finished(expr_bp(lexer, 0))
        Lexed(lexer) == Validated(lexer, ValidateDurations(lexer, tod))
    IN  Lexed(LexerNew(input))

(* ------------- interpreter/multi.rs: the lazy sequences ---------------- *)
\* the iterator adaptors the evaluation builds, each with its own state
IterEmpty == [k |-> "empty"]
IterOnce(str) == [k |-> "once", item |-> Some(str)]
IterChain(a, b) == [k |-> "chain", a |-> Some(a), b |-> b]
\* a repetition that emits its count after the repeated text
RepeatsThenCount(str, count) ==
    [k |-> "chain", a |-> Some([k |-> "repeat_n", element |-> str, count |-> count]),
     b |-> [k |-> "once", item |-> Some(IntToText(count))]]
IterRepeatN(str, count) == [k |-> "repeat_n", element |-> str, count |-> count]
\* a flatten that walks its element once, whatever the count
FlattenOnce(d, count) ==
    [k |-> "flatten", element |-> d, count |-> Min2(count, 1),
     frontiter |-> [some |-> FALSE]]
IterFlatten(d, count) ==
    [k |-> "flatten", element |-> d, count |-> count, frontiter |-> [some |-> FALSE]]

Yield(item, it) == [item |-> item, it |-> it]

\* Iterator::next of each adaptor: the item, if any, and the advanced iterator
RECURSIVE IterNext(_)
IterNext(it) ==
    CASE it.k = "empty" -> Yield(NoText, it)
      [] it.k = "once" -> Yield(it.item, [it EXCEPT !.item = NoText])
      [] it.k = "repeat_n" ->
           IF it.count = 0 THEN Yield(NoText, it)
           ELSE Yield(Some(it.element), [it EXCEPT !.count = @ - 1])
      [] it.k = "chain" ->
           IF it.a.some
           THEN LET r == IterNext(it.a.v)
                IN  IF r.item.some THEN Yield(r.item, [it EXCEPT !.a = Some(r.it)])
                    ELSE LET rb == IterNext(it.b)
                         IN  Yield(rb.item, [it EXCEPT !.a = [some |-> FALSE], !.b = rb.it])
           ELSE LET rb == IterNext(it.b)
                IN  Yield(rb.item, [it EXCEPT !.b = rb.it])
      [] it.k = "flatten" ->
           IF it.frontiter.some
           THEN LET r == IterNext(it.frontiter.v)
                IN  IF r.item.some THEN Yield(r.item, [it EXCEPT !.frontiter = Some(r.it)])
                    ELSE IterNext([it EXCEPT !.frontiter = [some |-> FALSE]])
           ELSE IF it.count = 0 THEN Yield(NoText, it)
           ELSE IterNext([it EXCEPT !.count = @ - 1, !.frontiter = Some(it.element)])

(* --------------- interpreter/multi.rs: the evaluation ------------------ *)
Durations(it) == [k |-> "Durations", it |-> it, n |-> 0]
DInt(int) == [k |-> "Int", it |-> IterEmpty, n |-> int]

DurationsOrIntFrom(value) ==
    IF value.kind = "Duration" THEN Durations(IterOnce(value.s)) ELSE DInt(value.n)

into_durations(d) == IF d.k = "Durations" THEN d.it ELSE IterOnce(IntToText(d.n))
join(left, right) == Durations(IterChain(into_durations(left), into_durations(right)))

\* an evaluation that joins the operands of every operator
RECURSIVE EvalJoinsProducts(_)
EvalJoinsProducts(sexpr) ==
    IF sexpr.k = "Atom" THEN Ok(DurationsOrIntFrom(sexpr.value))
    ELSE LET Joined(left, right) == IF ~left.ok THEN left
                                    ELSE IF ~right.ok THEN right
                                    ELSE Ok(join(left.v, right.v))
         IN  Joined(EvalJoinsProducts(sexpr.left), EvalJoinsProducts(sexpr.right))

RECURSIVE MultiEval(_)
MultiEval(sexpr) ==
    IF sexpr.k = "Atom" THEN Ok(DurationsOrIntFrom(sexpr.value))
    ELSE LET left == MultiEval(sexpr.left)
             right == MultiEval(sexpr.right)
         IN  IF ~left.ok THEN left
             ELSE IF ~right.ok THEN right
             ELSE IF sexpr.op = "Add" THEN Ok(join(left.v, right.v))
             ELSE CASE left.v.k = "Durations" /\ right.v.k = "Durations" ->
                         Fail("MulDurations", <<>>)
                    [] left.v.k = "Durations" /\ right.v.k = "Int" ->
                         Ok(Durations(IterFlatten(left.v.it, SaturatingUsize(right.v.n))))
                    [] left.v.k = "Int" /\ right.v.k = "Durations" ->
                         Ok(Durations(IterFlatten(right.v.it, SaturatingUsize(left.v.n))))
                    [] left.v.k = "Int" /\ right.v.k = "Int" ->
                         Ok(Durations(IterRepeatN(IntToText(left.v.n),
                                                  SaturatingUsize(right.v.n))))

(* ----------------- interpreter/multi.rs: InputIter --------------------- *)
\* a Peekable: the iterator and the slot of an item already taken by peek
Peekable(it) == [iter |-> it, peeked |-> [some |-> FALSE, v |-> NoText]]
InputIterEmpty == Peekable(IterEmpty)
InputIterFrom(value) == Peekable(into_durations(value))

\* InputIter::next: the item, if any, and the advanced InputIter
InputIterNext(p) ==
    IF p.peeked.some THEN Yield(p.peeked.v, [p EXCEPT !.peeked = [some |-> FALSE, v |-> NoText]])
    ELSE LET r == IterNext(p.iter) IN Yield(r.item, [p EXCEPT !.iter = r.it])

\* a peek that takes the item as next does
PeekTakes(p) == InputIterNext(p)
\* InputIter::peek: the item, if any, and the InputIter holding it in its slot
InputIterPeek(p) ==
    IF p.peeked.some THEN Yield(p.peeked.v, p)
    ELSE LET r == IterNext(p.iter)
         IN  Yield(r.item, [iter |-> r.it, peeked |-> Some(r.item)])

interpret_multi(input, tod) ==
    LET Iterate(value) == IF ~value.ok THEN value ELSE Ok(InputIterFrom(value.v))
        Evaluate(expr) == IF ~expr.ok THEN expr ELSE Iterate(MultiEval(expr.v))
    IN  Evaluate(MultiParse(input, tod))

\* the first n literals an InputIter yields (fewer if it ends)
RECURSIVE TakeN(_, _)
TakeN(p, n) ==
    IF n = 0 THEN <<>>
    ELSE LET r == InputIterNext(p)
         IN  IF r.item.some THEN <<r.item.v>> \o TakeN(r.it, n - 1) ELSE <<>>

(* ----------------------------- timer.rs: Timer ------------------------- *)
\* the local time of day at clock value nw; the clock starts at a midnight
TimeOfDay(nw) == nw % DayTicks

\* RawTimer::new.  after_finish is TRUE when the hook is set; the hook of a
\* MultiTimer's current Timer is MultiTimer::next.  The end_time signal is
\* left out: update_end_time writes it from get_end_time and only the view
\* reads it.
TimerNew ==
    [duration |-> None, start_time |-> None, last_pause_time |-> None,
     acc_paused_duration |-> 0, time_remaining |-> None, after_finish |-> FALSE]

\* the memos of RawTimer::new
started(t) == t.start_time.some
paused(t) == started(t) /\ t.last_pause_time.some
running(t) == started(t) /\ ~paused(t)
finished(t) == t.time_remaining.some /\ ~(t.time_remaining.v > 0)

get_time_elapsed(t, nw) ==
    IF ~t.start_time.some THEN 0
    ELSE LET end_time == IF t.last_pause_time.some THEN t.last_pause_time.v ELSE nw
         IN  (end_time - t.start_time.v) - t.acc_paused_duration

get_time_remaining(t, nw) ==
    IF t.duration.some THEN Some(t.duration.v - get_time_elapsed(t, nw)) ELSE None

get_end_time(t, nw) ==
    IF ~started(t) THEN None
    ELSE LET duration_to_end == get_time_remaining(t, nw)
         IN  IF duration_to_end.some THEN Some(nw + duration_to_end.v) ELSE None

(* ------------------------- timer.rs: MultiTimer ------------------------ *)
\* finished recomputes counted per run stop at FinCap
FinCap == 1
\* History of the current run of the current Timer (from start to the next
\* reset): whether the hook was set when the run started, how many calls of
\* update_time_remaining found remaining <= 0, how many times the hook ran,
\* and the summed length of the pauses that resume() has completed.
NoRun == [hooked |-> FALSE, fin |-> 0, hooks |-> 0, pauses |-> 0]

\* RawMultiTimer::new
RawMultiTimerNew(id) ==
    [current |-> TimerNew, iter |-> InputIterEmpty, input |-> <<>>, title |-> <<>>,
     consumed |-> 0, id |-> id, run |-> NoRun]

RECURSIVE update_time_remaining(_, _), MultiTimerNext(_, _), TimerRestart(_, _, _)
RECURSIVE TimerReset(_, _)

\* RawTimer::start
TimerStart(mt, duration, nw) ==
    [mt EXCEPT !.current.start_time = Some(nw),
               !.current.duration = Some(duration),
               !.run = [hooked |-> mt.current.after_finish, fin |-> 0, hooks |-> 0,
                        pauses |-> 0]]

\* a recompute that never runs the hook
UpdateWithoutHook(mt, nw) ==
    [mt EXCEPT !.current.time_remaining = get_time_remaining(mt.current, nw)]

\* a recompute that goes on to recompute the Timer its hook has started
RECURSIVE UpdateChainsInline(_, _)
UpdateChainsInline(mt, nw) ==
    LET t == mt.current
        time_remaining == get_time_remaining(t, nw)
        is_over == time_remaining.some /\ ~(time_remaining.v > 0)
    IN  IF is_over /\ ~finished(t) /\ t.after_finish
        THEN UpdateChainsInline(
                 MultiTimerNext([mt EXCEPT !.current.time_remaining = time_remaining,
                                           !.run.hooks = @ + 1], nw), nw)
        ELSE [mt EXCEPT !.current.time_remaining = time_remaining]

\* RawTimer::update_time_remaining
update_time_remaining(mt, nw) ==
    LET t == mt.current
        time_remaining == get_time_remaining(t, nw)
        is_over == time_remaining.some /\ ~(time_remaining.v > 0)
        seen == [mt EXCEPT !.run.fin = IF is_over THEN Min2(@ + 1, FinCap) ELSE @]
    IN  IF is_over /\ ~finished(t) /\ t.after_finish
        THEN LET before == [seen EXCEPT !.current.time_remaining = get_time_remaining(t, nw),
                                        !.run.hooks = @ + 1]
                 SetAgain(after) ==
                     [after EXCEPT !.current.time_remaining =
                                       get_time_remaining(after.current, nw)]
             IN  SetAgain(MultiTimerNext(before, nw))
        ELSE [seen EXCEPT !.current.time_remaining = time_remaining]

\* RawTimer::reset
TimerReset(mt, nw) ==
    update_time_remaining(
        [mt EXCEPT !.current.start_time = None,
                   !.current.last_pause_time = None,
                   !.current.acc_paused_duration = 0,
                   !.current.duration = None,
                   !.run = NoRun], nw)

\* RawTimer::restart
TimerRestart(mt, duration, nw) == TimerStart(TimerReset(mt, nw), duration, nw)

\* a next() that restarts the Timer without counting the literal
NextKeepsCount(mt, nw) ==
    LET Taken(r) ==
            IF ~r.item.some THEN [mt EXCEPT !.iter = r.it]
            ELSE TimerRestart([mt EXCEPT !.iter = r.it],
                              interpret_single(r.item.v, TimeOfDay(nw)).v, nw)
    IN  Taken(InputIterNext(mt.iter))

\* MultiTimer::next
MultiTimerNext(mt, nw) ==
    LET Taken(r) ==
            IF ~r.item.some THEN [mt EXCEPT !.iter = r.it]
            ELSE TimerRestart([mt EXCEPT !.iter = r.it, !.consumed = @ + 1],
                              interpret_single(r.item.v, TimeOfDay(nw)).v, nw)
    IN  Taken(InputIterNext(mt.iter))

\* MultiTimer::reset
MultiTimerReset(mt, nw) ==
    [TimerReset(mt, nw) EXCEPT !.consumed = 0, !.iter = InputIterEmpty]

\* MultiTimer::start
MultiTimerStart(mt, iter, nw) == MultiTimerNext([mt EXCEPT !.iter = iter], nw)

\* MultiTimer::restart
MultiTimerRestart(mt, iter, nw) == MultiTimerStart(MultiTimerReset(mt, nw), iter, nw)

\* MultiTimer::peek: the literal, if any, and the MultiTimer whose cursor holds it
MultiTimerPeek(mt) ==
    LET r == InputIterPeek(mt.iter) IN [item |-> r.item, mt |-> [mt EXCEPT !.iter = r.it]]

\* RawTimer::set_after_finish, with MultiTimer::next as the closure
set_after_finish(mt) == [mt EXCEPT !.current.after_finish = TRUE]

\* RawTimer::pause
pause(mt, nw) ==
    IF paused(mt.current) THEN mt
    ELSE [mt EXCEPT !.current.last_pause_time = Some(nw)]

\* a resume that leaves the pause in place
ResumeKeepsPause(mt, nw) == mt

\* RawTimer::resume
resume(mt, nw) ==
    IF ~paused(mt.current) THEN mt
    ELSE [mt EXCEPT !.current.acc_paused_duration = @ + (nw - mt.current.last_pause_time.v),
                    !.current.last_pause_time = None,
                    !.run.pauses = @ + (nw - mt.current.last_pause_time.v)]

\* RawTimer::add_duration
add_duration(mt, duration, nw) ==
    LET t == mt.current
        remaining == get_time_remaining(t, nw).v
        changed ==
            IF duration < 0
            THEN IF remaining <= -duration
                 THEN [resume(mt, nw) EXCEPT
                           !.current.duration = Some(t.duration.v - remaining)]
                 ELSE [mt EXCEPT !.current.duration = Some(@.v + duration)]
            ELSE IF duration > 0
            THEN IF finished(t) THEN TimerRestart(mt, duration, nw)
                 ELSE [mt EXCEPT !.current.duration = Some(@.v + duration)]
            ELSE mt
    IN  IF ~started(t) THEN mt
        ELSE IF duration < 0 /\ finished(t) THEN mt
        ELSE update_time_remaining(changed, nw)

(* --------------- utils/time/timestamp.rs, timer/serialize.rs ----------- *)
to_unix_millis(date) == TruncDiv(date, SubMs)
\* a conversion that takes the milliseconds for ticks
FromUnixMillisUnscaled(millis) == millis
from_unix_millis(millis) == millis * SubMs
\* Duration::whole_milliseconds().saturating_as::<u64>()
WholeMillisU64(d) == IF d < 0 THEN 0 ELSE TruncDiv(d, SubMs)
\* (ms as u64).saturating_as::<i64>().milliseconds()
Milliseconds(ms) == ms * SubMs

OptMap(F(_), o) == IF o.some THEN Some(F(o.v)) ELSE None

\* impl From<&RawMultiTimer> for TimerJson
TimerJsonFrom(value) ==
    [duration |-> OptMap(WholeMillisU64, value.current.duration),
     start |-> OptMap(to_unix_millis, value.current.start_time),
     last_pause |-> OptMap(to_unix_millis, value.current.last_pause_time),
     acc_pause_duration |-> WholeMillisU64(value.current.acc_paused_duration),
     duration_input |-> value.input,
     title |-> value.title,
     consumed |-> value.consumed]

\* a replay that never advances
ReplayNothing(mt, n, nw) == mt

\* (1..consumed).for_each(|_| timer.next())
RECURSIVE RepeatNext(_, _, _)
RepeatNext(mt, n, nw) == IF n <= 0 THEN mt ELSE RepeatNext(MultiTimerNext(mt, nw), n - 1, nw)

\* a count check that accepts every replay
AnyReplayReached(unparsed, timer) == TRUE
\* the comparison of the stored count with the count the replay consumed
ReplayReached(unparsed, timer) == unparsed.consumed = timer.consumed

\* the closure of parse_timer_json's filter_map: one stored entry to a
\* MultiTimer with the given id, or none
ParseEntry(unparsed, id, nw) ==
    LET named == [RawMultiTimerNew(id) EXCEPT !.input = unparsed.duration_input,
                                              !.title = unparsed.title]
        Updated(timer) ==
            Some(update_time_remaining(
                     [timer EXCEPT !.current.acc_paused_duration =
                                       Milliseconds(unparsed.acc_pause_duration),
                                   !.run.pauses =
                                       Milliseconds(unparsed.acc_pause_duration)], nw))
        Paused(timer) ==
            IF unparsed.last_pause.some /\ ~started(timer.current) THEN [some |-> FALSE]
            ELSE Updated(IF unparsed.last_pause.some
                         THEN [pause(timer, nw) EXCEPT
                                   !.current.last_pause_time =
                                       Some(from_unix_millis(unparsed.last_pause.v))]
                         ELSE timer)
        Started(timer) ==
            IF ~ReplayReached(unparsed, timer) THEN [some |-> FALSE]
            ELSE IF unparsed.start.some /\ ~unparsed.duration.some THEN [some |-> FALSE]
            ELSE Paused(IF unparsed.start.some
                        THEN [TimerStart(timer, Milliseconds(unparsed.duration.v), nw)
                                  EXCEPT !.current.start_time =
                                             Some(from_unix_millis(unparsed.start.v))]
                        ELSE timer)
        Replayed(iter) ==
            IF ~iter.ok THEN [some |-> FALSE]
            ELSE Started(IF unparsed.consumed # 0
                         THEN RepeatNext(MultiTimerStart(named, iter.v, nw),
                                         unparsed.consumed - 1, nw)
                         ELSE named)
    IN  Replayed(interpret_multi(unparsed.duration_input, TimeOfDay(nw)))

(* ----------------------- contexts.rs: TimerList ----------------------- *)
\* Uuid::new_v4: an id no timer of the list has
FreshId(list) ==
    CHOOSE i \in 0 .. Len(list) :
        /\ \A j \in DOMAIN list : list[j].id # i
        /\ \A l \in 0 .. (i - 1) : \E j \in DOMAIN list : list[j].id = l

TimerListNew == <<RawMultiTimerNew(0)>>
is_empty(list) == list = <<>>
len(list) == Len(list)
push_new(list) == Append(list, RawMultiTimerNew(FreshId(list)))
set(list, new_timers) == IF is_empty(new_timers) THEN push_new(new_timers) ELSE new_timers
from_timers(new_timers) == IF is_empty(new_timers) THEN TimerListNew ELSE new_timers
is_initial(list) == len(list) = 1 /\ list[1].input = <<>>

\* a removal that does not refill the emptied list
RemoveWithoutRefill(list, index, nw) ==
    SubSeq(list, 1, index) \o SubSeq(list, index + 2, Len(list))

\* TimerList::remove_index, index counted from 0; the removed timer is reset
\* and dropped
remove_index(list, index, nw) ==
    LET removed == MultiTimerReset(list[index + 1], nw)
        rest == SubSeq(list, 1, index) \o SubSeq(list, index + 2, Len(list))
    IN  IF is_empty(rest) THEN push_new(rest) ELSE rest

position(list, id) == (CHOOSE j \in DOMAIN list : list[j].id = id) - 1
remove_id(list, id, nw) == remove_index(list, position(list, id), nw)

\* TimerList::clear: for i in (0..len).rev() { remove_index(i) }
RECURSIVE ClearFrom(_, _, _)
ClearFrom(list, i, nw) ==
    IF i < 0 THEN list ELSE ClearFrom(remove_index(list, i, nw), i - 1, nw)
clear(list, nw) == ClearFrom(list, len(list) - 1, nw)

(* ---------------- timer/serialize.rs: the stored list ------------------ *)
\* The stored text is represented by what serde reads from it: json is FALSE
\* for a text that is no list of TimerJson, else entries are its records.
Snapshot(entries) == [json |-> TRUE, entries |-> entries]
NotJson == [json |-> FALSE, entries |-> <<>>]

stringify_timers(list) == Snapshot([i \in DOMAIN list |-> TimerJsonFrom(list[i])])

\* a decode that gives up at the first rejected entry
RECURSIVE ParseUntilRejected(_, _, _)
ParseUntilRejected(entries, acc, nw) ==
    IF entries = <<>> THEN acc
    ELSE LET Kept(r) ==
                 IF r.some THEN ParseUntilRejected(Tail(entries), Append(acc, r.v), nw)
                 ELSE acc
         IN  Kept(ParseEntry(Head(entries), FreshId(acc), nw))

\* into_iter().filter_map(..).collect()
RECURSIVE ParseEntries(_, _, _)
ParseEntries(entries, acc, nw) ==
    IF entries = <<>> THEN acc
    ELSE LET Kept(r) == IF r.some THEN Append(acc, r.v) ELSE acc
         IN  ParseEntries(Tail(entries), Kept(ParseEntry(Head(entries), FreshId(acc), nw)), nw)

parse_timer_json(stored, nw) ==
    IF ~stored.json THEN [some |-> FALSE]
    ELSE Some(from_timers(ParseEntries(stored.entries, <<>>, nw)))

(* ------------------------------- app.rs -------------------------------- *)
\* get_setting("timers") and parse_timer_json
retrieve_timers(store, nw) ==
    IF ~store.some THEN [some |-> FALSE] ELSE parse_timer_json(store.v, nw)
\* store_setting("timers", stringify_timers(timers))
store_timers(list) == Some(stringify_timers(list))

(* ------------------------ the MultiTimer machine ----------------------- *)
\* One MultiTimer, its recompute driver, its controls and a save-and-restore.
VARIABLES
    now,        \* the clock, in ticks
    mt,         \* the MultiTimer
    timers,     \* the TimerList of the application
    storage,    \* the stored snapshot under the key "timers", if any
    phase,      \* the application: "mount", "run" or "closed"
    ev          \* history of the application: the handler that ran last

vars == <<now, mt, timers, storage, phase, ev>>
appVars == <<timers, storage, phase, ev>>

\* input texts of the machine
TxtChain == <<"1", "m", "s", "+", "0", ".", "5", "m", "s">>
TxtZero == <<"1", "m", "s", "+", "0", "+", "1", "m", "s">>
TxtLoop == <<"1", "m", "s", "*">>
TxtBad == <<"1", "x">>
Inputs == {TxtChain, TxtZero, TxtLoop, TxtBad}

\* add_duration is called with deltas of at most MaxDelta ticks either way
MaxDelta == 2
Deltas == {-MaxDelta, -1, 1}
\* handlers that can advance the sequence run while consumed is below
\* MaxConsumed, which no finite input of the machine reaches
MaxConsumed == 4

Event(op, arg) == [op |-> op, arg |-> arg]
NoStorage == [some |-> FALSE, v |-> <<>>]

Init ==
    /\ now = 0
    /\ mt = RawMultiTimerNew(0)
    /\ timers = <<RawMultiTimerNew(0)>>
    /\ storage = NoStorage
    /\ phase = "run"
    /\ ev = Event("Init", 0)

\* the clock advances
Advance ==
    /\ now < MaxTime
    /\ now' = now + 1
    /\ UNCHANGED <<mt, appVars>>

\* a tick of the driver that runs while the timer is running
Recompute ==
    /\ running(mt.current)
    /\ mt.consumed < MaxConsumed
    /\ mt' = update_time_remaining(mt, now)
    /\ UNCHANGED <<now, appVars>>

\* the input field, shown while the timer has not started
SetInput ==
    /\ ~started(mt.current)
    /\ \E text \in Inputs : mt' = [mt EXCEPT !.input = text]
    /\ UNCHANGED <<now, appVars>>

\* the input text is interpreted and, if valid, the MultiTimer restarted on it
Start ==
    /\ LET Restart(iter) == iter.ok /\ mt' = MultiTimerRestart(mt, iter.v, now)
       IN  Restart(interpret_multi(mt.input, TimeOfDay(now)))
    /\ UNCHANGED <<now, appVars>>

Pause ==
    /\ mt' = pause(mt, now)
    /\ UNCHANGED <<now, appVars>>

Resume ==
    /\ mt' = resume(mt, now)
    /\ UNCHANGED <<now, appVars>>

AddDuration ==
    /\ mt.consumed < MaxConsumed
    /\ \E delta \in Deltas :
          /\ mt.current.duration.some => mt.current.duration.v + delta <= MaxDur
          /\ mt' = add_duration(mt, delta, now)
    /\ UNCHANGED <<now, appVars>>

Reset ==
    /\ mt' = MultiTimerReset(mt, now)
    /\ UNCHANGED <<now, appVars>>

NextEntry ==
    /\ mt.consumed < MaxConsumed
    /\ mt' = MultiTimerNext(mt, now)
    /\ UNCHANGED <<now, appVars>>

\* the hook is wired to MultiTimer::next before the timer is started
SetAfterFinish ==
    /\ ~started(mt.current)
    /\ ~mt.current.after_finish
    /\ mt' = set_after_finish(mt)
    /\ UNCHANGED <<now, appVars>>

\* the MultiTimer is encoded and decoded again
Decoded(m, nw) == ParseEntry(TimerJsonFrom(m), m.id, nw)
Reload ==
    /\ mt' = IF Decoded(mt, now).some THEN Decoded(mt, now).v ELSE RawMultiTimerNew(mt.id)
    /\ UNCHANGED <<now, appVars>>

Next ==
    \/ Advance \/ Recompute \/ SetInput \/ Start \/ Pause \/ Resume
    \/ AddDuration \/ Reset \/ NextEntry \/ SetAfterFinish \/ Reload

Spec == Init /\ [][Next]_vars

(* ------------------------------ chaining ------------------------------- *)
\* the literals of a valid input text, as far as the machine can consume them
Literals(text) == TakeN(interpret_multi(text, 0).v, MaxConsumed + 1)
DurationOf(literal) == interpret_single(literal, 0).v
\* a valid input whose sequence is finite and has positive durations only
PositiveChain(text) ==
    /\ interpret_multi(text, 0).ok
    /\ Len(Literals(text)) <= MaxConsumed
    /\ \A i \in DOMAIN Literals(text) : DurationOf(Literals(text)[i]) > 0

Remaining(m) == get_time_remaining(m.current, now)
\* the current entry is over at this instant and no recompute has seen it yet
FirstOverRecompute ==
    /\ Recompute
    /\ mt.run.hooked
    /\ mt.run.fin = 0
    /\ Remaining(mt).v <= 0

ChainStart ==
    (Start /\ PositiveChain(mt.input))
        => /\ mt'.consumed = 1
           /\ get_time_remaining(mt'.current, now') = Some(DurationOf(Literals(mt.input)[1]))

ChainAdvance ==
    (FirstOverRecompute /\ PositiveChain(mt.input) /\ mt.consumed < Len(Literals(mt.input)))
        => /\ mt'.consumed = mt.consumed + 1
           /\ mt'.current.start_time = Some(now)
           /\ mt'.current.duration =
                  Some(DurationOf(Literals(mt.input)[mt.consumed + 1]))
           /\ get_time_remaining(mt'.current, now') = mt'.current.duration
           /\ running(mt'.current)

ChainEnd ==
    ((Recompute \/ Advance) /\ PositiveChain(mt.input) /\ mt.run.hooked
       /\ mt.consumed = Len(Literals(mt.input))
       /\ (finished(mt.current) \/ (Recompute /\ Remaining(mt).v <= 0)))
        => /\ mt'.consumed = mt.consumed
           /\ finished(mt'.current)

\* C1: on a finite sequence of positive durations with the hook wired to
\* next(), starting runs entry 1 with remaining() = d1; the first recompute
\* that finds entry k over (k < n) restarts the Timer with d(k+1) and makes
\* consumed k+1; once entry n is over, consumed stays n and the Timer stays
\* finished on every later tick.
C1_Chaining == [][ChainStart /\ ChainAdvance /\ ChainEnd]_vars

C1_Witness ==
    /\ mt.input = TxtChain
    /\ mt.run.hooked
    /\ mt.run.hooks = 1
    /\ mt.consumed = 2
    /\ finished(mt.current)

\* C2: when the hook's next() has started an entry of duration 0, the next
\* recompute tick fires the hook for that entry and starts its successor.
C2_ZeroEntryAdvances ==
    [][(FirstOverRecompute /\ mt.current.duration = Some(0)
          /\ InputIterPeek(mt.iter).item.some)
         => mt'.consumed = mt.consumed + 1]_vars

\* C3: in a run that started with a hook, the hook has run exactly once if a
\* recompute has found remaining() <= 0, and not at all before that.
C3_HookOncePerRun == mt.run.hooked => mt.run.hooks = Min2(mt.run.fin, 1)

(* ----------------------------- saturation ------------------------------ *)
\* add_duration(delta) is called on a started Timer with remaining() > 0 and
\* delta takes away at least what remains
SaturatingAdd(delta) ==
    /\ AddDuration
    /\ mt' = add_duration(mt, delta, now)
    /\ started(mt.current)
    /\ Remaining(mt).v > 0
    /\ delta < 0
    /\ -delta >= Remaining(mt).v

CutToMillis(a, b) == b <= a /\ a - b < SubMs
OptCut(a, b) == a.some = b.some /\ (a.some => CutToMillis(a.v, b.v))

\* C5: decoding the encoded snapshot of a started MultiTimer gives the same
\* consumed count and the same started/paused state; each stored time is the
\* original cut to whole milliseconds, and remaining() and end_time() at the
\* same instant differ from the original's by less than 3 ms.
C5_RoundTrip ==
    started(mt.current) =>
        LET d == Decoded(mt, now)
            t == mt.current
        IN  /\ d.some
            /\ d.v.consumed = mt.consumed
            /\ started(d.v.current)
            /\ paused(d.v.current) = paused(t)
            /\ OptCut(t.duration, d.v.current.duration)
            /\ OptCut(t.start_time, d.v.current.start_time)
            /\ OptCut(t.last_pause_time, d.v.current.last_pause_time)
            /\ CutToMillis(t.acc_paused_duration, d.v.current.acc_paused_duration)
            /\ Abs(get_time_remaining(d.v.current, now).v - Remaining(mt).v) < 3 * SubMs
            /\ Abs(get_end_time(d.v.current, now).v - get_end_time(t, now).v) < 3 * SubMs

\* a paused second entry whose start is not a whole millisecond
C5_Witness ==
    /\ paused(mt.current)
    /\ mt.consumed = 2
    /\ Decoded(mt, now).some
    /\ Decoded(mt, now).v.current.start_time # mt.current.start_time
    /\ Decoded(mt, now).v.consumed = 2

\* C7: the decoded MultiTimer's cursor stands after the first k literals of
\* interpret_multi(input): peek() gives the (k+1)-th literal, or none, and the
\* following literals are those of the encoded MultiTimer.
C7_CursorReplayed ==
    mt.consumed > 0 =>
        LET d == Decoded(mt, now)
            k == mt.consumed
            fresh == TakeN(interpret_multi(mt.input, 0).v, k + LookAhead)
            upcoming == SubSeq(fresh, k + 1, Len(fresh))
        IN  /\ d.some
            /\ Len(fresh) >= k
            /\ TakeN(d.v.iter, LookAhead) = upcoming
            /\ TakeN(mt.iter, LookAhead) = upcoming
            /\ MultiTimerPeek(d.v).item =
                   (IF upcoming = <<>> THEN NoText ELSE Some(upcoming[1]))

C7_Witness ==
    /\ mt.input = TxtZero
    /\ mt.consumed = 2
    /\ Decoded(mt, now).some
    /\ MultiTimerPeek(Decoded(mt, now).v).item = Some(<<"1", "m", "s">>)

(* --------------------------- the application --------------------------- *)
\* The TimerList with the stored snapshot: load on mount, the list handlers,
\* store before unload, and the next launch.
TagA == <<"a">>
TagB == <<"b">>
TagC == <<"c">>
TagD == <<"d">>
TagE == <<"e">>

Entry(input, title, consumed, duration, start, last_pause) ==
    [duration |-> duration, start |-> start, last_pause |-> last_pause,
     acc_pause_duration |-> 0, duration_input |-> input, title |-> title,
     consumed |-> consumed]

\* stored entries: sound ones and ones that decode rejects
EntryRunning == Entry(TxtChain, TagA, 2, Some(1), Some(0), None)
EntryPaused == Entry(TxtZero, TagB, 1, Some(1), Some(0), Some(0))
EntryUnstarted == Entry(TxtLoop, TagC, 0, None, None, None)
EntryBadInput == Entry(TxtBad, TagD, 0, None, None, None)
EntryUnreachable == Entry(TxtChain, TagE, 3, Some(1), Some(0), None)
EntryPauseOnly == Entry(TxtChain, TagD, 0, None, None, Some(0))
EntryNoDuration == Entry(TxtLoop, TagE, 1, None, Some(0), None)
\* entries with a consumed count and no stored start
EntryReplayOnly == Entry(TxtLoop, TagA, 1, None, None, None)
EntryReplayedPause ==
    [Entry(TxtChain, TagB, 1, None, None, Some(0)) EXCEPT !.acc_pause_duration = 1]

\* what the store can hold when the application is launched
StoredSnapshots ==
    { NoStorage,
      Some(NotJson),
      Some(Snapshot(<<>>)),
      Some(Snapshot(<<EntryRunning, EntryUnstarted>>)),
      Some(Snapshot(<<EntryUnreachable, EntryRunning, EntryBadInput, EntryPaused>>)),
      Some(Snapshot(<<EntryPauseOnly, EntryUnstarted, EntryNoDuration>>)),
      Some(Snapshot(<<EntryBadInput, EntryUnreachable, EntryPauseOnly>>)),
      Some(Snapshot(<<EntryReplayOnly, EntryReplayedPause>>)) }

AppInputs == {TxtChain, TxtBad}

InitApp ==
    /\ now = 1
    /\ mt = RawMultiTimerNew(0)
    /\ timers = TimerListNew
    /\ storage \in StoredSnapshots
    /\ phase = "mount"
    /\ ev = Event("Launch", 0)

\* main_ref.on_load
AppLoad ==
    /\ phase = "mount"
    /\ LET Loaded_(t) == IF t.some THEN set(timers, t.v) ELSE timers
       IN  timers' = Loaded_(retrieve_timers(storage, now))
    /\ phase' = "run"
    /\ ev' = Event("AppLoad", len(timers))
    /\ UNCHANGED <<now, mt, storage>>

PushNew ==
    /\ phase = "run"
    /\ len(timers) < MaxTimers
    /\ timers' = push_new(timers)
    /\ ev' = Event("PushNew", len(timers))
    /\ UNCHANGED <<now, mt, storage, phase>>

RemoveIndex ==
    /\ phase = "run"
    /\ \E index \in 0 .. (len(timers) - 1) : timers' = remove_index(timers, index, now)
    /\ ev' = Event("RemoveIndex", len(timers))
    /\ UNCHANGED <<now, mt, storage, phase>>

RemoveId ==
    /\ phase = "run"
    /\ \E j \in DOMAIN timers : timers' = remove_id(timers, timers[j].id, now)
    /\ ev' = Event("RemoveId", len(timers))
    /\ UNCHANGED <<now, mt, storage, phase>>

Clear ==
    /\ phase = "run"
    /\ timers' = clear(timers, now)
    /\ ev' = Event("Clear", len(timers))
    /\ UNCHANGED <<now, mt, storage, phase>>

AppSetInput ==
    /\ phase = "run"
    /\ \E j \in DOMAIN timers : \E text \in AppInputs :
          /\ ~started(timers[j].current)
          /\ timers' = [timers EXCEPT ![j].input = text]
    /\ ev' = Event("AppSetInput", len(timers))
    /\ UNCHANGED <<now, mt, storage, phase>>

AppStart ==
    /\ phase = "run"
    /\ \E j \in DOMAIN timers :
          LET Restart(iter) ==
                  /\ iter.ok
                  /\ timers' = [timers EXCEPT ![j] = MultiTimerRestart(@, iter.v, now)]
          IN  Restart(interpret_multi(timers[j].input, TimeOfDay(now)))
    /\ ev' = Event("AppStart", len(timers))
    /\ UNCHANGED <<now, mt, storage, phase>>

\* the beforeunload listener
BeforeUnload ==
    /\ phase = "run"
    /\ storage' = IF ~is_initial(timers) THEN store_timers(timers) ELSE storage
    /\ phase' = "closed"
    /\ ev' = Event("BeforeUnload", len(timers))
    /\ UNCHANGED <<now, mt, timers>>

\* the next launch: App() builds a new TimerList
Launch ==
    /\ phase = "closed"
    /\ timers' = TimerListNew
    /\ phase' = "mount"
    /\ ev' = Event("Launch", 0)
    /\ UNCHANGED <<now, mt, storage>>

NextApp ==
    \/ AppLoad \/ PushNew \/ RemoveIndex \/ RemoveId \/ Clear
    \/ AppSetInput \/ AppStart \/ BeforeUnload \/ Launch

SpecApp == InitApp /\ [][NextApp]_vars

(* ---------------------- shutdown and restoration ----------------------- *)
\* C6: the beforeunload listener stores a snapshot of the list as it stands
\* at shutdown.
C6_StoredBeforeShutdown == [][BeforeUnload => storage' = store_timers(timers)]_vars

\* the stored list that was read at the last load
Loaded == ev.op = "AppLoad" /\ storage.some /\ storage.v.json
Stored == storage.v.entries

Interprets(e) == interpret_multi(e.duration_input, 0).ok
\* the sequence of the entry's input yields fewer literals than were consumed
Unreachable(e) ==
    /\ Interprets(e)
    /\ Len(TakeN(interpret_multi(e.duration_input, 0).v, e.consumed)) < e.consumed
PauseWithoutStart(e) == e.last_pause.some /\ ~e.start.some
Rejected(e) == ~ParseEntry(e, 0, now).some
Projection(m) == [duration_input |-> m.input, title |-> m.title, consumed |-> m.consumed]
ProjectEntry(e) ==
    [duration_input |-> e.duration_input, title |-> e.title, consumed |-> e.consumed]

\* C8: an entry whose stored consumed count the replay cannot reach is
\* rejected, and the restored list holds no MultiTimer made from it.
C8_UnreachableDiscarded ==
    Loaded =>
        \A i \in DOMAIN Stored :
            Unreachable(Stored[i]) =>
                /\ Rejected(Stored[i])
                /\ \A j \in DOMAIN timers : timers[j].title # Stored[i].title

C8_Witness ==
    /\ Loaded
    /\ Stored = <<EntryUnreachable, EntryRunning, EntryBadInput, EntryPaused>>
    /\ Unreachable(Stored[1])
    /\ len(timers) = 2

\* C9: entries whose input does not interpret, whose count is unreachable
\* or that store a pause without a start are rejected; the restored list is
\* made of all the other entries, in their stored order.
C9_OthersKeptInOrder ==
    Loaded =>
        LET kept == SelectSeq(Stored, LAMBDA e : ~Rejected(e))
        IN  /\ \A i \in DOMAIN Stored :
                   (~Interprets(Stored[i]) \/ Unreachable(Stored[i])
                      \/ PauseWithoutStart(Stored[i])) => Rejected(Stored[i])
            /\ kept # <<>> =>
                   /\ len(timers) = Len(kept)
                   /\ \A j \in DOMAIN kept : Projection(timers[j]) = ProjectEntry(kept[j])

\* two sound entries restored in order, each preceded by a rejected one
C9_Witness ==
    /\ Loaded
    /\ Len(Stored) = 4
    /\ Rejected(Stored[1])
    /\ Rejected(Stored[3])
    /\ len(timers) = 2
    /\ timers[1].title = TagA
    /\ timers[2].title = TagB

BlankTimer(m) ==
    /\ m.input = <<>>
    /\ m.title = <<>>
    /\ m.consumed = 0
    /\ m.current = TimerNew

\* C10: the TimerList always holds at least one MultiTimer; after a removal
\* from a list of one, and after a load whose entries were all rejected, it
\* holds exactly one blank, unstarted MultiTimer.
C10_NeverEmpty ==
    /\ len(timers) >= 1
    /\ (ev.op \in {"RemoveIndex", "RemoveId", "Clear"} /\ ev.arg = 1)
           => (len(timers) = 1 /\ BlankTimer(timers[1]))
    /\ (Loaded /\ \A i \in DOMAIN Stored : Rejected(Stored[i]))
           => (len(timers) = 1 /\ BlankTimer(timers[1]))

\* the only timer of a restored list was removed
C10_Witness ==
    /\ ev = Event("RemoveIndex", 1)
    /\ storage.some
    /\ storage.v.json
    /\ Stored = <<EntryPauseOnly, EntryUnstarted, EntryNoDuration>>
    /\ len(timers) = 1
    /\ BlankTimer(timers[1])

(* --------------------------- the Timer alone --------------------------- *)
\* One Timer and the methods of RawTimer, each callable in any state; ev
\* names the method called last.
Durs == 0 .. MaxDur

InitTimer ==
    /\ now = 0
    /\ mt = RawMultiTimerNew(0)
    /\ timers = <<>>
    /\ storage = NoStorage
    /\ phase = "timer"
    /\ ev = Event("new", 0)

CallStart ==
    /\ \E d \in Durs : mt' = TimerStart(mt, d, now)
    /\ ev' = Event("start", 0)
    /\ UNCHANGED <<now, timers, storage, phase>>

CallRestart ==
    /\ \E d \in Durs : mt' = TimerRestart(mt, d, now)
    /\ ev' = Event("restart", 0)
    /\ UNCHANGED <<now, timers, storage, phase>>

CallReset ==
    /\ mt' = TimerReset(mt, now)
    /\ ev' = Event("reset", 0)
    /\ UNCHANGED <<now, timers, storage, phase>>

CallPause ==
    /\ mt' = pause(mt, now)
    /\ ev' = Event("pause", 0)
    /\ UNCHANGED <<now, timers, storage, phase>>

CallResume ==
    /\ mt' = resume(mt, now)
    /\ ev' = Event("resume", 0)
    /\ UNCHANGED <<now, timers, storage, phase>>

CallAddDuration ==
    /\ \E delta \in Deltas :
          /\ mt.current.duration.some => mt.current.duration.v + delta <= MaxDur
          /\ mt' = add_duration(mt, delta, now)
    /\ ev' = Event("add_duration", 0)
    /\ UNCHANGED <<now, timers, storage, phase>>

CallUpdateTimeRemaining ==
    /\ mt' = update_time_remaining(mt, now)
    /\ ev' = Event("update_time_remaining", 0)
    /\ UNCHANGED <<now, timers, storage, phase>>

NextTimer ==
    \/ Advance \/ CallStart \/ CallRestart \/ CallReset \/ CallPause
    \/ CallResume \/ CallAddDuration \/ CallUpdateTimeRemaining

SpecTimer == InitTimer /\ [][NextTimer]_vars

(* ------------------------- the Timer's methods ------------------------- *)
Elapsed(m) == get_time_elapsed(m.current, now)
\* the four fields of a Timer that its methods set
Fields(m) ==
    <<m.current.start_time, m.current.last_pause_time,
      m.current.acc_paused_duration, m.current.duration>>

\* C11: a pause() that follows a pause(), the clock possibly advanced in
\* between, leaves every field and elapsed() as the first pause() left them.
C11_PauseTwice ==
    [][(CallPause /\ ev.op = "pause")
         => (Fields(mt') = Fields(mt) /\ get_time_elapsed(mt'.current, now') = Elapsed(mt))]_vars

\* started with remaining() <= 0 at the current instant
Over(m) ==
    /\ started(m.current) /\ m.current.duration.some
    /\ get_time_remaining(m.current, now).v <= 0

\* C12: on a started Timer whose remaining() is <= 0, add_duration(delta) with
\* delta > 0 leaves the Timer as restart(delta) does: start_time = now, no
\* pause, accumulated_paused = 0, total_duration = delta, remaining() = delta.
C12_AddWhenOverRestarts ==
    [][\A delta \in Deltas :
          (CallAddDuration /\ mt' = add_duration(mt, delta, now) /\ delta > 0 /\ Over(mt))
            => /\ Fields(mt') = <<Some(now), None, 0, Some(delta)>>
               /\ get_time_remaining(mt'.current, now') = Some(delta)]_vars

\* C13: on a started Timer whose remaining() is <= 0, add_duration(delta) with
\* delta < 0 changes none of total_duration, start_time, last_pause_time and
\* accumulated_paused.
C13_SubtractWhenOverIsNoOp ==
    [][\A delta \in Deltas :
          (CallAddDuration /\ mt' = add_duration(mt, delta, now) /\ delta < 0 /\ Over(mt))
            => Fields(mt') = Fields(mt)]_vars

\* C15: start(duration) on a Timer in any state leaves it started and not
\* paused, with accumulated_paused = 0, elapsed() = 0 and
\* remaining() = duration at that instant.
C15_StartFromAnyState ==
    [][\A d \in Durs :
          (CallStart /\ mt' = TimerStart(mt, d, now))
            => /\ started(mt'.current) /\ ~paused(mt'.current)
               /\ mt'.current.acc_paused_duration = 0
               /\ get_time_elapsed(mt'.current, now') = 0
               /\ get_time_remaining(mt'.current, now') = Some(d)]_vars

\* C14: for a started Timer elapsed() counts only un-paused time: it stays as
\* it is while the Timer is paused and the clock advances, resume() leaves it
\* as it is at the instant of the call, and it equals
\* (pause_instant_or_now - start) - accumulated_paused, accumulated_paused
\* being the sum of the pause intervals completed since the start.
C14_ElapsedSkipsPauses ==
    /\ [](started(mt.current)
            => /\ mt.current.acc_paused_duration = mt.run.pauses
               /\ Elapsed(mt) = ((IF mt.current.last_pause_time.some
                                  THEN mt.current.last_pause_time.v ELSE now)
                                 - mt.current.start_time.v) - mt.run.pauses)
    /\ [][(Advance /\ paused(mt.current))
            => get_time_elapsed(mt'.current, now') = Elapsed(mt)]_vars
    /\ [][(CallResume /\ started(mt.current))
            => get_time_elapsed(mt'.current, now') = Elapsed(mt)]_vars

(* ------------------------- the decoded Timer --------------------------- *)
\* the Timer fields an entry stores, in the units of the Timer
StoredFields(e) ==
    <<OptMap(from_unix_millis, e.start), OptMap(from_unix_millis, e.last_pause),
      Milliseconds(e.acc_pause_duration), OptMap(Milliseconds, e.duration)>>

\* C16: for every entry that decode accepts, the restored Timer's start_time,
\* last_pause_time and accumulated_paused are the stored values, absent when
\* the stored field is absent, and its total_duration is the stored
\* duration_ms, not the duration of the replayed literal.
C16_DecodedFieldsAreStored ==
    Loaded =>
        LET kept == SelectSeq(Stored, LAMBDA e : ~Rejected(e))
        IN  kept # <<>> =>
                \A j \in DOMAIN kept :
                    j \in DOMAIN timers /\ Fields(timers[j]) = StoredFields(kept[j])

(* ---------------- the MultiTimer walking its sequence ------------------ *)
\* repetition counts run from 0 to RepMax
RepMax == 3
\* literals compared ahead of the cursor: more than the longest finite sequence
SeqLook == 2 * RepMax + 2

Txt2m == <<"2", "m">>
Txt10m == <<"1", "0", "m">>
Txt45 == <<"4", "5">>
TxtPair == <<"(">> \o Txt10m \o <<"+">> \o Txt45 \o <<")">>
\* the repeated sub-expression and the literals it yields
Bodies == { [text |-> Txt2m, yields |-> <<Txt2m>>],
            [text |-> TxtPair, yields |-> <<Txt10m, Txt45>>] }
Parens(text) == IF Head(text) = "(" THEN text ELSE <<"(">> \o text \o <<")">>
Forms == {"n*S", "S*n", "n(S)", "(S)n"}
RepText(form, n, text) ==
    CASE form = "n*S" -> IntToText(n) \o <<"*">> \o text
      [] form = "S*n" -> text \o <<"*">> \o IntToText(n)
      [] form = "n(S)" -> IntToText(n) \o Parens(text)
      [] form = "(S)n" -> Parens(text) \o IntToText(n)
RepTexts == { RepText(form, n, b.text) : form \in Forms, n \in 0 .. RepMax, b \in Bodies }

TxtMixed == <<"2", "m", "+", "1", "x">>
TxtInts == <<"1", "+", "2", "*", "3">>
TxtNested == <<"(", "2", "*", "2", "m", ")", "*", "2", "+", "4", "5">>
TxtStarred == <<"4", "5", "+", "2", "m", "*">>
TxtClock == <<"1", ":", "3", "0", "+", "5", "p", "m">>
\* texts that end in a postfix `*`: the prefix, if any, and the repeated part
Txt2h == <<"2", "h">>
StarTexts ==
    { [text |-> Txt2m \o <<"*">>, prefix |-> <<>>, cycle |-> <<Txt2m>>],
      [text |-> TxtPair \o <<"*">>, prefix |-> <<>>, cycle |-> <<Txt10m, Txt45>>],
      [text |-> Txt2h \o <<" ", "+", " ">> \o Txt2m \o <<"*">>,
       prefix |-> <<Txt2h>>, cycle |-> <<Txt2m>>],
      [text |-> Txt2h \o <<" ", "+", " ">> \o TxtPair \o <<"*">>,
       prefix |-> <<Txt2h>>, cycle |-> <<Txt10m, Txt45>>] }
SeqInputs ==
    RepTexts \cup {TxtMixed, TxtInts, TxtNested, TxtStarred, TxtClock}
        \cup {st.text : st \in StarTexts}

\* phase tells whether the sequence under the cursor is the one of mt.input:
\* "walking" from a start until the input is typed again or the timer reset
InitSeq ==
    /\ now = 0
    /\ mt = RawMultiTimerNew(0)
    /\ timers = <<>>
    /\ storage = NoStorage
    /\ phase = "typing"
    /\ ev = Event("new", NoText)

\* MultiTimer::set_input, from the input field shown while not started
SeqSetInput ==
    /\ ~started(mt.current)
    /\ \E text \in SeqInputs : mt' = [mt EXCEPT !.input = text]
    /\ phase' = "typing"
    /\ ev' = Event("set_input", NoText)
    /\ UNCHANGED <<now, timers, storage>>

SeqStart ==
    /\ LET Restart(iter) == iter.ok /\ mt' = MultiTimerRestart(mt, iter.v, now)
       IN  Restart(interpret_multi(mt.input, TimeOfDay(now)))
    /\ phase' = "walking"
    /\ ev' = Event("start", NoText)
    /\ UNCHANGED <<now, timers, storage>>

SeqNext ==
    /\ mt.consumed < SeqLook
    /\ mt' = MultiTimerNext(mt, now)
    /\ ev' = Event("next", NoText)
    /\ UNCHANGED <<now, timers, storage, phase>>

\* MultiTimer::peek; the event keeps the literal it returned
SeqPeek ==
    /\ mt' = MultiTimerPeek(mt).mt
    /\ ev' = Event("peek", MultiTimerPeek(mt).item)
    /\ UNCHANGED <<now, timers, storage, phase>>

SeqReset ==
    /\ mt' = MultiTimerReset(mt, now)
    /\ phase' = "typing"
    /\ ev' = Event("reset", NoText)
    /\ UNCHANGED <<now, timers, storage>>

NextSeq == Advance \/ SeqSetInput \/ SeqStart \/ SeqNext \/ SeqPeek \/ SeqReset

SpecSeq == InitSeq /\ [][NextSeq]_vars

(* ------------------------ the sequence a text gives -------------------- *)
\* the sequence of mt.input is installed and no other input was typed since
Installed == phase = "walking"

RECURSIVE Repeated(_, _)
Repeated(s, n) == IF n = 0 THEN <<>> ELSE s \o Repeated(s, n - 1)

\* the literals still ahead of the cursor, up to SeqLook of them
Ahead(m) == TakeN(m.iter, SeqLook)

\* C20: for a count n and a sub-expression that yields the sequence S, the
\* texts n*S, S*n, n(S) and (S)n all yield S repeated n times in order: the
\* MultiTimer started on such a text has taken the first consumed literals of
\* that repetition, runs on the last one taken, and has the rest ahead.
C20_RepeatsInOrder ==
    Installed =>
        \A form \in Forms, n \in 0 .. RepMax, b \in Bodies :
            mt.input = RepText(form, n, b.text) =>
                LET Whole(all) ==
                        /\ mt.consumed <= Len(all)
                        /\ Len(all) = n * Len(b.yields)
                        /\ Ahead(mt) = SubSeq(all, mt.consumed + 1, Len(all))
                        /\ mt.consumed > 0 =>
                               mt.current.duration =
                                   Some(interpret_single(all[mt.consumed], TimeOfDay(now)).v)
                IN  Whole(Repeated(b.yields, n))

\* "(10m+45)3" walked to its end: 10m, 45 three times
C20_Witness ==
    /\ Installed
    /\ mt.input = RepText("(S)n", RepMax, TxtPair)
    /\ mt.consumed = 2 * RepMax
    /\ mt.current.duration = Some(interpret_single(Txt45, 0).v)
    /\ Ahead(mt) = <<>>

\* the literals of mt.input from its first one, as a cursor that was never
\* peeked yields them
Fresh(m) == TakeN(interpret_multi(m.input, TimeOfDay(now)).v, m.consumed + SeqLook)

\* C17: peek() returns the literal the next next() consumes, none when the
\* sequence is exhausted, and changes nothing a caller can see: the consumed
\* count, the current Timer and the literals ahead are as before the call,
\* and after any number of peeks the literals ahead are those of a sequence
\* that was never peeked.
C17_PeekIsNonDestructive ==
    /\ [](Installed =>
            Ahead(mt) = SubSeq(Fresh(mt), mt.consumed + 1, Len(Fresh(mt))))
    /\ [][SeqPeek =>
            /\ ev'.arg = InputIterNext(mt.iter).item
            /\ ev'.arg = (IF Ahead(mt) = <<>> THEN NoText ELSE Some(Ahead(mt)[1]))
            /\ mt'.consumed = mt.consumed
            /\ mt'.current = mt.current
            /\ Ahead(mt') = Ahead(mt)]_vars
    /\ [][(SeqNext /\ ev.op = "peek") =>
            IF ev.arg.some
            THEN /\ mt'.consumed = mt.consumed + 1
                 /\ mt'.current.duration =
                        Some(interpret_single(ev.arg.v, TimeOfDay(now)).v)
            ELSE mt'.consumed = mt.consumed /\ mt'.current = mt.current]_vars

\* a peek in the middle of "(10m+45)3" returned 10m and holds it in its slot
C17_Witness ==
    /\ Installed
    /\ mt.input = RepText("(S)n", RepMax, TxtPair)
    /\ mt.consumed = 2
    /\ ev = Event("peek", Some(Txt10m))
    /\ mt.iter.peeked.some

\* C19: every literal a successfully interpreted sequence yields (a duration
\* literal, an integer atom, the digit text of a coerced integer) is accepted
\* by interpret_single, so a next() that pulls a literal starts the Timer on
\* its duration.
C19_YieldedLiteralsAreValid ==
    /\ [](Installed =>
            \A i \in DOMAIN Ahead(mt) : interpret_single(Ahead(mt)[i], TimeOfDay(now)).ok)
    /\ [][(SeqNext /\ Installed /\ Ahead(mt) # <<>>) =>
            /\ interpret_single(Ahead(mt)[1], TimeOfDay(now)).ok
            /\ mt'.consumed = mt.consumed + 1
            /\ mt'.current.duration =
                   Some(interpret_single(Ahead(mt)[1], TimeOfDay(now)).v)]_vars

\* "(2*2m)*2+45" walked to its coerced integer, taken as 45 minutes
C19_Witness ==
    /\ Installed
    /\ mt.input = TxtNested
    /\ mt.consumed = 5
    /\ ev.op = "next"
    /\ mt.current.duration = Some(45 * UnitTicks("Min"))

(* --------------------- the controls and the sequence ------------------- *)
\* the literal peek() returns
Upcoming(m) == MultiTimerPeek(m).item
SequenceKept == mt'.consumed = mt.consumed /\ Upcoming(mt') = Upcoming(mt)

FinishesInCall(delta) ==
    /\ started(mt.current) /\ mt.current.duration.some
    /\ mt.current.after_finish /\ ~finished(mt.current)
    /\ Remaining(mt).v + delta <= 0

RECURSIVE SExprText(_)
SExprText(sexpr) ==
    IF sexpr.k = "Atom"
    THEN IF sexpr.value.kind = "Int" THEN IntToText(sexpr.value.n) ELSE sexpr.value.s
    ELSE <<"(", IF sexpr.op = "Add" THEN "+" ELSE "*", " ">> \o SExprText(sexpr.left)
             \o <<" ">> \o SExprText(sexpr.right) \o <<")">>

\* the result of parse, shown as its tests show it
ParseText(input, tod) ==
    LET Shown(r) == IF r.ok THEN Ok(SExprText(r.v)) ELSE r
    IN  Shown(MultiParse(input, tod))

\* the result of interpret_multi with the first literals of its sequence
Collected(input, tod) ==
    LET Shown(r) == IF r.ok THEN Ok(TakeN(r.v, SeqLook)) ELSE r
    IN  Shown(interpret_multi(input, tod))

\* texts of the precedence cases
PrecedenceTexts ==
    { <<"1", " ", "+", " ", "2", " ", "*", " ", "3">>, <<"a", " ", "+", " ", "b", " ", "*",
        " ", "c", " ", "*", " ", "d", " ", "+", " ", "e">>, <<"1", " ", "+", " ", "2", " ",
        "*", " ", "3", " ", "*", " ", "4", " ", "+", " ", "5">>, <<"2", " ", "+", " ", "(",
        "3", " ", "+", " ", "4", ")">>,
      <<"1", " ", "+", " ", "2", " ", "+", " ", "3">>, <<"1", " ", "*", " ", "2", " ", "*",
        " ", "3">>, <<"2", " ", "*", " ", "3", " ", "+", " ", "1">>, <<"(", "1", " ", "+", " ",
        "2", ")", " ", "*", " ", "3">>,
      <<"2", "h", " ", "+", " ", "(", "1", "5", "m", " ", "+", " ", "4", "5", ")", "*", "3">>,
        <<"1", "m", " ", "+", " ", "2", "m", " ", "*", " ", "3", "m", " ", "*", " ", "4", "m",
        " ", "+", " ", "5", "m">> }


\* texts of the implicit multiplications
ImplicitTexts ==
    { <<"3", "(", "4", "0", "h", ")">>, <<"(", "1", "+", "3", ")", "4">>, <<"(", "2", ")", "(",
        "1", "m", "+", "2", "m", ")">>, <<"(", "1", "m", "+", "2", "m", ")", "(", "2", ")">>,
        <<"2", "h", "+", "2", "(", "1", "5", "+", "4", "5", "m", ")", "2", "+", "3", "h">> }

\* texts that multiply two operands, neither a bare integer
ProductTexts ==
    { <<"3", "h", " ", "*", " ", "2", "a", "m">>, <<"2", "m", "*", "3", "m">>, <<"(", "1", "m",
        "+", "2", ")", "*", "(", "3", "m", ")">>, <<"1", "m", "*", "2", "*", "3", "m">>, <<"2",
        "*", "3", "*", "1", "m">>, <<"(", "1", "m", "+", "2", "m", ")", "*", "(", "3", "+",
        "4", ")">> }

\* texts that multiply by a bare integer
CountedTexts == { <<"2", "*", "(", "3", "*", "1", "m", ")">>, <<"3", "*", "4">>, <<"2", "a",
        "m", " ", "*", " ", "3">> }

\* texts of valid literals with an unmatched parenthesis
UnmatchedTexts ==
    { <<"(", "1", "h">>, <<"1", "h", ")">>, <<"(", "(", "1", "h", ")">>, <<"1", "h", ")",
        ")">>, <<"(", "1", "h", "+", "2", "m">>, <<"2", "*", "(", "1", "h">>, <<"(", "1", "h",
        ")", "+", "2", "m", ")">>, <<"1", "h", "+", "(", "2", "m">>,
      <<"(", "1", "h", "+", "(", "2", "m", "+", "3", "s", ")">>, <<")", "1", "h">>, <<"1", "h",
        " ", "(">>, <<"(">>, <<"1", "h", "+", "2", "m", "(">> }

\* texts with an invalid duration literal
BadLiteralTexts ==
    { <<"2", "h", " ", "+", " ", "4", "a", " ", "+", " ", "3", "d">>, <<"(", "3", "h", " ",
        "+", " ", "4", " ", "+", " ", "(", "2", "m", "s", " ", "3", ")", "*", "2", ")", "*",
        "2">>, <<"1", "x", " ", "+", " ", "2", "y">>, <<"(", "2", "h", " ", "+", " ", "4",
        "a">>, <<"4", "a", " ", "*", " ", "3", "m">>,
      <<"2", "h", " ", "+", " ", "1", "3", ":", "0", "0", "a", "m">> }

\* unit sums that end in a bare number, and the same sums with the unit written
TrailingTexts ==
    { <<"3", "h", "4">>, <<"3", "h", " ", "4", "m">>, <<"3", "d", " ", "2", "3", "h", " ", "1",
        "2", ".", "3", "m", " ", "2">>, <<"3", "d", " ", "2", "3", "h", " ", "1", "2", ".",
        "3", "m", " ", "2", "s">>, <<"1", "d", "5">>, <<"1", "d", " ", "5", "h">>, <<"2", "m",
        "3", "0">>,
      <<"2", "m", " ", "3", "0", "s">>, <<"1", "s", "5">>, <<"1", "s", " ", "5", "m", "s">>,
        <<"3", "m", "4", ".", "5">>, <<"3", "m", " ", "4", ".", "5", "s">>, <<"2", "m", "s",
        " ", "3">>, <<"1", "h", " ", "2", "m", "s", " ", "3">>, <<"5", "m", "s", "1">> }

\* times of day written without a meridiem
ClockTexts ==
    { [text |-> <<"5", ":", "3", "0">>, h |-> 5, m |-> 30, s |-> 0],
      [text |-> <<"1", "2", ":", "0", "0">>, h |-> 12, m |-> 0, s |-> 0],
      [text |-> <<"0", ":", "0", "0">>, h |-> 0, m |-> 0, s |-> 0],
      [text |-> <<"0", ":", "1", "5">>, h |-> 0, m |-> 15, s |-> 0],
      [text |-> <<"1", "1", ":", "3", "0", ":", "0", "0">>, h |-> 11, m |-> 30, s |-> 0],
      [text |-> <<"1", "1", ":", "5", "9", ":", "5", "9">>, h |-> 11, m |-> 59, s |-> 59],
      [text |-> <<"5", ":">>, h |-> 5, m |-> 0, s |-> 0] }

\* times of day written with a meridiem, and the hour of the day they name
MeridiemTexts ==
    { [text |-> <<"1", "2", "a", "m">>, h |-> 0, m |-> 0, s |-> 0],
      [text |-> <<"1", "2", "p", "m">>, h |-> 12, m |-> 0, s |-> 0],
      [text |-> <<"1", "2", ":", "3", "0", "a", "m">>, h |-> 0, m |-> 30, s |-> 0],
      [text |-> <<"1", "2", ":", "3", "0", " ", "p", "m">>, h |-> 12, m |-> 30, s |-> 0],
      [text |-> <<"5", "a", "m">>, h |-> 5, m |-> 0, s |-> 0],
      [text |-> <<"5", "p", "m">>, h |-> 17, m |-> 0, s |-> 0],
      [text |-> <<"5", ":", "3", "0", "p", "m">>, h |-> 17, m |-> 30, s |-> 0],
      [text |-> <<"1", "1", ":", "1", "5", " ", "A", "M">>, h |-> 11, m |-> 15, s |-> 0],
      [text |-> <<"1", "1", ":", "5", "9", ":", "5", "9", "p", "m">>, h |-> 23, m |-> 59,
        s |-> 59] }

\* hours past 12 with a meridiem
LateHourTexts == { <<"1", "3", ":", "0", ":", "0", "a", "m">>, <<"1", "3", "p", "m">>, <<"1",
        "7", ":", "3", "0", "p", "m">>, <<"2", "4", "a", "m">> }

\* products of two bare integers
IntProductTexts == { <<"1", "+", "(", "3", "*", "2", ")">>, <<"3", "*", "2">>, <<"2", "*",
        "3">>, <<"3", "*", "0">>, <<"0", "*", "3">>, <<"4", "*", "1">>, <<"(", "3", "*", "2",
        ")", "+", "1", "m">> }

\* texts with an operator that lacks an operand, and the token found in the operand's place
MissingOperandTexts ==
    { [text |-> <<"+", "3", "0", "m">>, token |-> <<"+">>],
      [text |-> <<"3", "0", "m", "+">>, token |-> <<"+">>],
      [text |-> <<"1", "2", "m", "+", "3", "4", "m", " ", "+", "+", " ", "2", "h">>,
        token |-> <<"+">>],
      [text |-> <<"1", "2", "m", "+", "3", "4", "m", " ", "+", "*", " ", "2", "h">>,
        token |-> <<"*">>],
      [text |-> <<"1", "d", "+", "2", "0", "(", "2", "+", ")">>, token |-> <<")">>],
      [text |-> <<"*", "3", "0", "m">>, token |-> <<"*">>],
      [text |-> <<"2", "m", "+", "(", "*", "3", ")">>, token |-> <<"*">>],
      [text |-> <<"2", "m", " ", "*", "+", " ", "3", "m">>, token |-> <<"+">>],
      [text |-> <<"2", "m", " ", "*", "*", " ", "3">>, token |-> <<"*">>],
      [text |-> <<"(", "2", "m", "*", ")", "+", "3", "m">>, token |-> <<")">>] }

\* unit sums that begin with a unit
UnitFirstTexts == { <<"h", "3">>, <<"h", " ", "3", "m">>, <<"h", "3", "h">>, <<"m", " ", "5",
        " ", "s">> }

\* times of day with a dotted meridiem, and the same without dots
DottedTexts == { <<"3", "a", ".", "m", ".">>, <<"3", "a", "m">>, <<"3", "p", ".", "m", ".">>,
        <<"3", "p", "m">>, <<"3", ":", "3", "0", " ", "P", ".", "M", ".">>, <<"3", ":", "3",
        "0", "p", "m">> }

TypedTexts ==
    PrecedenceTexts \cup ImplicitTexts \cup ProductTexts \cup CountedTexts
    \cup UnmatchedTexts \cup BadLiteralTexts \cup TrailingTexts
    \cup {c.text : c \in ClockTexts} \cup {c.text : c \in MeridiemTexts}
    \cup LateHourTexts \cup IntProductTexts \cup {c.text : c \in MissingOperandTexts}
    \cup UnitFirstTexts \cup DottedTexts

\* the local clock when the text is interpreted: instants around midnight,
\* noon and the candidate times of the clock texts
Instants ==
    { h * UnitTicks("Hour") + m * UnitTicks("Min") + o :
        h \in {0, 5, 11, 12, 17, 23}, m \in {0, 15, 30}, o \in {0, 1} }

NoResult == [ok |-> FALSE, e |-> "", p |-> <<>>]

InitText ==
    /\ now \in Instants
    /\ mt = RawMultiTimerNew(0)
    /\ timers = <<>>
    /\ storage = NoStorage
    /\ phase = "text"
    /\ ev = Event("new", NoResult)

\* the text is typed into the input field
TextType ==
    /\ \E text \in TypedTexts : mt' = [mt EXCEPT !.input = text]
    /\ ev' = Event("type", NoResult)
    /\ UNCHANGED <<now, timers, storage, phase>>

\* the clock moves on to a later instant
TextClock ==
    /\ \E later \in Instants : later > now /\ now' = later
    /\ ev' = Event("clock", NoResult)
    /\ UNCHANGED <<mt, timers, storage, phase>>

TextParse ==
    /\ ev' = Event("parse", ParseText(mt.input, TimeOfDay(now)))
    /\ UNCHANGED <<now, mt, timers, storage, phase>>

TextInterpretMulti ==
    /\ ev' = Event("interpret_multi", Collected(mt.input, TimeOfDay(now)))
    /\ UNCHANGED <<now, mt, timers, storage, phase>>

TextInterpretSingle ==
    /\ ev' = Event("interpret_single", interpret_single(mt.input, TimeOfDay(now)))
    /\ UNCHANGED <<now, mt, timers, storage, phase>>

NextText == TextType \/ TextClock \/ TextParse \/ TextInterpretMulti \/ TextInterpretSingle

SpecText == InitText /\ [][NextText]_vars

(* ------------------------------ precedence ----------------------------- *)
\* parse was applied to the text and showed this tree
ParsedAs(text, shown) == (ev.op = "parse" /\ mt.input = text) => ev.arg = Ok(shown)

SameAsExplicit(implicit, explicit) ==
    (ev.op = "interpret_multi" /\ mt.input = implicit)
        => /\ ev.arg = Collected(explicit, TimeOfDay(now))
           /\ ev.arg.ok

\* C22: where an atom or `)` is directly followed by `(` or an atom, in the
\* adjacencies atom-`(`, `)`-atom and `)`-`(`, interpret_multi gives the
\* result of the text with an explicit `*` at that point.
C22_ImplicitIsExplicit ==
    /\ SameAsExplicit(<<"3", "(", "4", "0", "h", ")">>, <<"3", "*", "(", "4", "0", "h", ")">>)
    /\ SameAsExplicit(<<"(", "1", "+", "3", ")", "4">>, <<"(", "1", "+", "3", ")", "*", "4">>)
    /\ SameAsExplicit(<<"2", "h", "+", "2", "(", "1", "5", "+", "4", "5", "m", ")", "2", "+",
        "3", "h">>, <<"2", "h", "+", "2", "*", "(", "1", "5", "+", "4", "5", "m", ")", "*",
        "2", "+", "3", "h">>)
    /\ SameAsExplicit(<<"(", "2", ")", "(", "1", "m", "+", "2", "m", ")">>, <<"(", "2", ")",
        "*", "(", "1", "m", "+", "2", "m", ")">>)
    /\ SameAsExplicit(<<"(", "1", "m", "+", "2", "m", ")", "(", "2", ")">>, <<"(", "1", "m",
        "+", "2", "m", ")", "*", "(", "2", ")">>)

C24_ProductOfSequencesRejected ==
    ev.op = "interpret_multi" =>
        /\ mt.input \in ProductTexts => ev.arg = Fail("MulDurations", <<>>)
        /\ mt.input \in CountedTexts => (ev.arg.ok /\ ev.arg.v # <<>>)

\* "3h * 2am" interpreted in the afternoon
C24_Witness ==
    /\ ev.op = "interpret_multi"
    /\ mt.input = <<"3", "h", " ", "*", " ", "2", "a", "m">>
    /\ TimeOfDay(now) > 12 * UnitTicks("Hour")
    /\ ev.arg = Fail("MulDurations", <<>>)

(* ---------------------- unmatched parentheses -------------------------- *)
\* C25: a text of valid literals with an unclosed `(` or a `)` that closes
\* nothing is rejected with UnbalancedParens.
C25_UnmatchedIsUnbalanced ==
    (ev.op = "interpret_multi" /\ mt.input \in UnmatchedTexts)
        => ev.arg = Fail("UnbalancedParens", <<>>)

(* ------------------------ invalid literals ----------------------------- *)
RejectedAs(text, literal) ==
    (ev.op = "interpret_multi" /\ mt.input = text)
        => (~ev.arg.ok /\ ev.arg = interpret_single(literal, TimeOfDay(now)))

\* C26: interpret_multi returns the error that interpret_single gives for an
\* invalid duration literal of the text, unchanged, and no sequence; with
\* two invalid literals it is the error of the last one, and the literal's
\* error comes before UnbalancedParens and MulDurations.
C26_LiteralErrorsVerbatim ==
    /\ RejectedAs(<<"2", "h", " ", "+", " ", "4", "a", " ", "+", " ", "3", "d">>, <<"4", "a">>)
    /\ RejectedAs(<<"(", "3", "h", " ", "+", " ", "4", " ", "+", " ", "(", "2", "m", "s", " ",
        "3", ")", "*", "2", ")", "*", "2">>, <<"2", "m", "s", " ", "3">>)
    /\ RejectedAs(<<"1", "x", " ", "+", " ", "2", "y">>, <<"2", "y">>)
    /\ RejectedAs(<<"(", "2", "h", " ", "+", " ", "4", "a">>, <<"4", "a">>)
    /\ RejectedAs(<<"4", "a", " ", "*", " ", "3", "m">>, <<"4", "a">>)
    /\ RejectedAs(<<"2", "h", " ", "+", " ", "1", "3", ":", "0", "0", "a", "m">>, <<"1", "3",
        ":", "0", "0", "a", "m">>)
    /\ (ev.op = "interpret_multi" /\ mt.input = <<"2", "h", " ", "+", " ", "4", "a", " ", "+",
        " ", "3", "d">>)
            => ev.arg = Fail("InvalidUnit", <<"a">>)

\* "(3h + 4 + (2ms 3)*2)*2" was interpreted and rejected for its "2ms 3"
C26_Witness ==
    /\ ev.op = "interpret_multi"
    /\ mt.input = <<"(", "3", "h", " ", "+", " ", "4", " ", "+", " ", "(", "2", "m", "s", " ",
        "3", ")", "*", "2", ")", "*", "2">>
    /\ ~ev.arg.ok
    /\ ev.arg.e = "SmallerThanMilli"
    /\ ev.arg = interpret_single(<<"2", "m", "s", " ", "3">>, TimeOfDay(now))

(* ------------------------ the trailing number -------------------------- *)
Single(text) == ev.op = "interpret_single" /\ mt.input = text
SameAsWritten(trailing, written) ==
    Single(trailing) => (ev.arg.ok /\ ev.arg = interpret_single(written, TimeOfDay(now)))

\* C27: a sum of units that ends in a bare number takes that number in the
\* unit one step below the unit before it: "3h4" is "3h 4m", "3d 23h 12.3m 2"
\* ends in 2 seconds; after milliseconds the text is rejected with
\* SmallerThanMilli of that number.
C27_TrailingNumber ==
    /\ SameAsWritten(<<"3", "h", "4">>, <<"3", "h", " ", "4", "m">>)
    /\ SameAsWritten(<<"1", "d", "5">>, <<"1", "d", " ", "5", "h">>)
    /\ SameAsWritten(<<"2", "m", "3", "0">>, <<"2", "m", " ", "3", "0", "s">>)
    /\ SameAsWritten(<<"1", "s", "5">>, <<"1", "s", " ", "5", "m", "s">>)
    /\ SameAsWritten(<<"3", "m", "4", ".", "5">>, <<"3", "m", " ", "4", ".", "5", "s">>)
    /\ SameAsWritten(<<"3", "d", " ", "2", "3", "h", " ", "1", "2", ".", "3", "m", " ", "2">>,
        <<"3", "d", " ", "2", "3", "h", " ", "1", "2", ".", "3", "m", " ", "2", "s">>)
    /\ Single(<<"3", "h", "4">>) => ev.arg = Ok(3 * UnitTicks("Hour") + 4 * UnitTicks("Min"))
    /\ Single(<<"3", "d", " ", "2", "3", "h", " ", "1", "2", ".", "3", "m", " ", "2">>) =>
            ev.arg = Ok(3 * UnitTicks("Day") + 23 * UnitTicks("Hour")
                            + (123 * UnitTicks("Min")) \div 10 + 2 * UnitTicks("Sec"))
    /\ Single(<<"2", "m", "s", " ", "3">>) => ~ev.arg.ok /\ ev.arg.e = "SmallerThanMilli" /\ ev.arg.p[1] = 3
    /\ Single(<<"1", "h", " ", "2", "m", "s", " ",
        "3">>) => ~ev.arg.ok /\ ev.arg.e = "SmallerThanMilli" /\ ev.arg.p[1] = 3
    /\ Single(<<"5", "m", "s", "1">>) => ~ev.arg.ok /\ ev.arg.e = "SmallerThanMilli" /\ ev.arg.p[1] = 1

\* "3d 23h 12.3m 2" was interpreted
C27_Witness ==
    /\ Single(<<"3", "d", " ", "2", "3", "h", " ", "1", "2", ".", "3", "m", " ", "2">>)
    /\ ev.arg.ok
    /\ ev.arg = interpret_single(<<"3", "d", " ", "2", "3", "h", " ", "1", "2", ".", "3", "m",
        " ", "2", "s">>, TimeOfDay(now))

(* ------------------- a time of day without meridiem -------------------- *)
\* the time from the time of day tod to the next time the clock shows t
UntilNext(t, tod) == IF tod < t THEN t - tod ELSE t + DayTicks - tod
MorningOf(c) == (c.h % 12) * UnitTicks("Hour") + c.m * UnitTicks("Min") + c.s * UnitTicks("Sec")
EveningOf(c) == MorningOf(c) + 12 * UnitTicks("Hour")

\* C28: for a time of day written without a meridiem, with an hour up to 12,
\* interpret_single returns the time until the sooner of its next occurrence
\* in the morning and its next occurrence in the evening, whatever the
\* current time of day; the two are never equally far.
C28_SoonerOfMorningAndEvening ==
    \A c \in ClockTexts :
        Single(c.text) =>
            LET Sooner(am, pm) ==
                    /\ am # pm
                    /\ ev.arg = Ok(IF am < pm THEN am ELSE pm)
                    /\ ev.arg.v > 0 /\ ev.arg.v <= 12 * UnitTicks("Hour")
            IN  Sooner(UntilNext(MorningOf(c), TimeOfDay(now)),
                       UntilNext(EveningOf(c), TimeOfDay(now)))

\* "5:30" interpreted at 17:30 sharp: the evening one is a day away, the
\* morning one is sooner
C28_Witness ==
    /\ Single(<<"5", ":", "3", "0">>)
    /\ TimeOfDay(now) = 17 * UnitTicks("Hour") + 30 * UnitTicks("Min")
    /\ ev.arg = Ok(12 * UnitTicks("Hour"))

(* --------------------- a time of day with meridiem --------------------- *)
\* C29: with a meridiem the hour is read on the 12-hour clock: 12 AM is hour
\* 0, 12 PM is hour 12, any other AM hour is itself and any other PM hour is
\* 12 more; the result is the time until the clock next shows that hour,
\* minute and second.  An hour above 12 with a meridiem is an error.
C29_TwelveHourClock ==
    /\ \A c \in MeridiemTexts :
            Single(c.text) =>
                ev.arg = Ok(UntilNext(c.h * UnitTicks("Hour") + c.m * UnitTicks("Min")
                                        + c.s * UnitTicks("Sec"), TimeOfDay(now)))
    /\ (ev.op = "interpret_single" /\ mt.input \in LateHourTexts) => ~ev.arg.ok

\* "12:30am" interpreted a quarter past midnight
C29_Witness ==
    /\ Single(<<"1", "2", ":", "3", "0", "a", "m">>)
    /\ TimeOfDay(now) = 15 * UnitTicks("Min")
    /\ ev.arg = Ok(15 * UnitTicks("Min"))

(* ------------------- the list, stored and read back -------------------- *)
\* C30: every list the application can hold, stored with stringify_timers
\* and read back with parse_timer_json, gives one MultiTimer per stored
\* MultiTimer, in order, with the same input and title; blank timers and
\* unstarted timers with an input that does not interpret are among them.
C30_ListReadBack ==
    phase = "run" =>
        LET SameList(back) ==
                /\ back.some
                /\ len(back.v) = len(timers)
                /\ \A j \in DOMAIN timers :
                       /\ back.v[j].input = timers[j].input
                       /\ back.v[j].title = timers[j].title
        IN  SameList(parse_timer_json(stringify_timers(timers), now))

(* -------------------- the pause and the start time --------------------- *)
\* C31: whatever methods were called on a Timer, last_pause_time is set only
\* while start_time is set and is then not before it; elapsed() is never
\* negative, and a snapshot with a stored pause has a stored start.
C31_PauseWithinStart ==
    /\ mt.current.last_pause_time.some =>
           /\ mt.current.start_time.some
           /\ mt.current.start_time.v <= mt.current.last_pause_time.v
    /\ Elapsed(mt) >= 0
    /\ TimerJsonFrom(mt).last_pause.some => TimerJsonFrom(mt).start.some

Interpreted(text, literals) ==
    (ev.op = "interpret_multi" /\ mt.input = text) => ev.arg = Ok(literals)

\* C33: the product of two bare integers is the digits of the left one,
\* repeated as many times as the right one says; the right one is a count
\* and is not among the literals.
C33_IntTimesInt ==
    /\ Interpreted(<<"1", "+", "(", "3", "*", "2", ")">>, <<<<"1">>, <<"3">>, <<"3">>>>)
    /\ Interpreted(<<"1", " ", "+", " ", "2", " ", "*", " ", "3">>, <<<<"1">>, <<"2">>,
        <<"2">>, <<"2">>>>)
    /\ Interpreted(<<"3", "*", "2">>, <<<<"3">>, <<"3">>>>)
    /\ Interpreted(<<"2", "*", "3">>, <<<<"2">>, <<"2">>, <<"2">>>>)
    /\ Interpreted(<<"3", "*", "0">>, <<>>)
    /\ Interpreted(<<"0", "*", "3">>, <<<<"0">>, <<"0">>, <<"0">>>>)
    /\ Interpreted(<<"4", "*", "1">>, <<<<"4">>>>)
    /\ Interpreted(<<"(", "3", "*", "2", ")", "+", "1", "m">>, <<<<"3">>, <<"3">>, <<"1",
        "m">>>>)

\* "1+(3*2)" was interpreted
C33_Witness ==
    /\ ev.op = "interpret_multi"
    /\ mt.input = <<"1", "+", "(", "3", "*", "2", ")">>
    /\ ev.arg.ok
    /\ Len(ev.arg.v) = 3
    /\ ev.arg.v[3] = <<"3">>

(* --------------------- an operator without operand --------------------- *)
\* C34: a text in which `+` or `*` lacks an operand, at the start, at the
\* end, after another operator or before `)`, is rejected by parse and by
\* interpret_multi with InvalidOp of the token that stands where the operand
\* should be, or of the operator itself when the text ends there.
C34_MissingOperandIsInvalidOp ==
    \A c \in MissingOperandTexts :
        (ev.op \in {"parse", "interpret_multi"} /\ mt.input = c.text)
            => ev.arg = Fail("InvalidOp", c.token)

(* ------------------------- a unit before a number ---------------------- *)
\* C35: a sum of units whose tokens are not number-then-unit pairs, such as
\* one that begins with a unit, is rejected with ClashingFormats.
C35_UnitFirstIsClashing ==
    (ev.op = "interpret_single" /\ mt.input \in UnitFirstTexts)
        => ev.arg = Fail("ClashingFormats", <<>>)

(* ------------------- the time until a time of day ---------------------- *)
TargetOf(c) == c.h * UnitTicks("Hour") + c.m * UnitTicks("Min") + c.s * UnitTicks("Sec")

\* C36: the time until a time of day is the time to its next occurrence:
\* later on the same day when the clock has not reached it, else on the next
\* day, a full day when the clock shows exactly that time; it is more than
\* nothing and at most 24 hours.
C36_NextOccurrence ==
    \A c \in MeridiemTexts :
        Single(c.text) =>
            LET Next_(until, tod, target) ==
                    /\ until > 0 /\ until <= 24 * UnitTicks("Hour")
                    /\ (tod + until) % DayTicks = target
                    /\ tod < target => tod + until < DayTicks
                    /\ tod >= target => tod + until >= DayTicks
                    /\ tod = target => until = 24 * UnitTicks("Hour")
            IN  ev.arg.ok /\ Next_(ev.arg.v, TimeOfDay(now), TargetOf(c))

\* "5pm" interpreted at 17:00 sharp is a day away
C36_Witness ==
    /\ Single(<<"5", "p", "m">>)
    /\ TimeOfDay(now) = 17 * UnitTicks("Hour")
    /\ ev.arg = Ok(DayTicks)

(* ----------------------- spellings of the meridiem --------------------- *)
\* C37: the spellings a.m. and p.m. are read as am and pm: "3a.m." gives what
\* "3am" gives and "3p.m." what "3pm" gives.
C37_DottedMeridiem ==
    /\ SameAsWritten(<<"3", "a", ".", "m", ".">>, <<"3", "a", "m">>)
    /\ SameAsWritten(<<"3", "p", ".", "m", ".">>, <<"3", "p", "m">>)
    /\ SameAsWritten(<<"3", ":", "3", "0", " ", "P", ".", "M", ".">>, <<"3", ":", "3", "0",
        "p", "m">>)
====
